---- MODULE Spec2Model ----
(***************************************************************************)
(* Patrol-management API: the guard, QR and admin routers                   *)
(* (src/routes/guard_routes.py, qr_routes.py, admin_routes.py).             *)
(*                                                                          *)
(* Every request handler is an async function: it runs without interruption *)
(* from one `await` to the next, and other handlers may run in between.     *)
(* A handler is therefore modelled as a sequence of steps, one per awaited  *)
(* database or provider call; calls[c].pc is the await a handler is         *)
(* suspended at.  The document collections and the clock are shared by all *)
(* handlers; the geocoding provider and the spreadsheet are services        *)
(* outside the program, seen through the outcomes of the calls to them.     *)
(*                                                                          *)
(* Units.  geodesic(...).meters is a float; distances are represented here  *)
(* as integers counting 1/UnitsPerMeter of a metre (a binary fraction, so   *)
(* that every sample distance is exactly a float and Python's round() of it *)
(* is decided by exact arithmetic).  Rounded distances are integers         *)
(* counting centimetres (round(x, 2)) or decimetres (round(x, 1)).          *)
(* Latitudes of the sample points are counted in the same unit along one    *)
(* meridian, so that the geodesic between two sample points is the          *)
(* absolute difference of their latitudes.                                  *)
(***************************************************************************)
EXTENDS Integers, Sequences, FiniteSets, TLC

\* Number of requests started in one behaviour.
MaxCalls == 2

\* Handler instances that may be in flight at the same time.
Calls == {1, 2}

\* Distance unit: 1/256 m.
UnitsPerMeter == 256

\* settings.WITHIN_RADIUS_METERS (config.py): the global radius, in metres.
WITHIN_RADIUS_METERS == 50

VARIABLES
    users,          \* users collection        (sequence of documents, insertion order)
    guards,         \* guards collection
    supervisors,    \* supervisors collection
    qr_locations,   \* qr_locations collection
    scan_events,    \* scan_events collection
    clock,          \* datetime.utcnow(), in ticks; the clock ticks when a request arrives
    calls,          \* per handler instance: operation, position, locals, outcome
    started,        \* history: number of requests started
    succeeded,      \* history: number of scan requests answered with a verdict
    event_owner,    \* history: event_owner[i] is the request that inserted scan_events[i]
    settings,       \* the settings object (config.py) that the handlers read
    config_requests \* history: number of update_system_config requests answered

vars == <<users, guards, supervisors, qr_locations, scan_events,
          clock, calls, started, succeeded, event_owner,
          settings, config_requests>>

----------------------------------------------------------------------------
\* Documents and sample data

\* The result of find_one when nothing matches (Python None).
NoDoc == [_id |-> 0]

\* An empty slot of a handler's frame.
Nothing == [none |-> TRUE]

Abs(x) == IF x < 0 THEN -x ELSE x

\* find_one(filter): the first document, in insertion order, that matches.
RECURSIVE FindFrom(_, _, _)
FindFrom(coll, Match(_), i) ==
    IF i > Len(coll) THEN NoDoc
    ELSE IF Match(coll[i]) THEN coll[i]
    ELSE FindFrom(coll, Match, i + 1)

FindOne(coll, Match(_)) == FindFrom(coll, Match, 1)

\* Sample latitudes: at the QR location, exactly 50 m away, 50 m + 1/256 m away.
LatitudeSamples == {0, 50 * UnitsPerMeter, 50 * UnitsPerMeter + 1}

Coordinates == {[latitude |-> l, longitude |-> 0] : l \in LatitudeSamples}

\* The reported position in whole degrees, as the validation of the request
\* body sees it: the area of the sample locations (0, 0), and positions beyond
\* each end of the latitude and longitude ranges.  The latitude and longitude of
\* Coordinates above place a valid position within that area.
DegreeSamples ==
    {[latitude |-> 0, longitude |-> 0],
     [latitude |-> 91, longitude |-> 0], [latitude |-> -91, longitude |-> 0],
     [latitude |-> 0, longitude |-> 181], [latitude |-> 0, longitude |-> -181]}

\* A validation that checks the latitude and forgets the longitude.
ValidCoordinatesLatitudeOnly(degrees) ==
    degrees.latitude >= -90 /\ degrees.latitude <= 90

\* The validation of the coordinates of a request body (models.py), done by the
\* framework before the handler is called: latitude in [-90, 90], longitude in
\* [-180, 180].
ValidCoordinates(degrees) ==
    /\ degrees.latitude >= -90 /\ degrees.latitude <= 90
    /\ degrees.longitude >= -180 /\ degrees.longitude <= 180

QrIds == {"QR-GATE", "QR-OLD", "QR-OTHER", "QR-NONE"}

\* Email addresses of requests: a guard's, a supervisor's, an unregistered one.
Emails == {"guard1@x", "sup1@x", "new@x"}

\* The fields of a request are fixed when it arrives; the model draws each one
\* when the handler first reads it, which nothing before that reading can tell
\* apart.  HasRead: the handler has read the field.
HasRead(req, field) == field \in DOMAIN req

InitUsers ==
    << [_id |-> 1, email |-> "admin1@x", name |-> "Admin One", role |-> "ADMIN",      isActive |-> TRUE, areaCity |-> "",      createdAt |-> 0, updatedAt |-> 0],
       [_id |-> 2, email |-> "admin2@x", name |-> "Admin Two", role |-> "ADMIN",      isActive |-> TRUE, areaCity |-> "",      createdAt |-> 0, updatedAt |-> 0],
       [_id |-> 3, email |-> "sup1@x", name |-> "Sup One", role |-> "SUPERVISOR", isActive |-> TRUE, areaCity |-> "Pune",  createdAt |-> 0, updatedAt |-> 0],
       [_id |-> 4, email |-> "sup2@x", name |-> "Sup Two", role |-> "SUPERVISOR", isActive |-> TRUE, areaCity |-> "Delhi", createdAt |-> 0, updatedAt |-> 0],
       [_id |-> 5, email |-> "guard1@x", name |-> "Guard One", role |-> "GUARD",      isActive |-> TRUE, areaCity |-> "Pune",  createdAt |-> 0, updatedAt |-> 0] >>

\* Supervisor 1 mirrors its scans to a spreadsheet, supervisor 2 has none.
InitSupervisors ==
    << [_id |-> 1, userId |-> 3, areaCity |-> "Pune",  sheetId |-> "sheet-1", assignedGuards |-> <<1>>, createdAt |-> 0, updatedAt |-> 0],
       [_id |-> 2, userId |-> 4, areaCity |-> "Delhi", sheetId |-> "",        assignedGuards |-> <<>>,  createdAt |-> 0, updatedAt |-> 0] >>

InitGuards ==
    << [_id |-> 1, userId |-> 5, supervisorId |-> 1, createdAt |-> 0, updatedAt |-> 0] >>

InitQrLocations ==
    << [_id |-> 1, qrId |-> "QR-GATE",  supervisorId |-> 1, isActive |-> TRUE,
        locationName |-> "Gate",  areaCity |-> "Pune",
        coordinates |-> [latitude |-> 0, longitude |-> 0]],
       [_id |-> 2, qrId |-> "QR-OLD",   supervisorId |-> 1, isActive |-> FALSE,
        locationName |-> "Old",   areaCity |-> "Pune",
        coordinates |-> [latitude |-> 0, longitude |-> 0]],
       [_id |-> 3, qrId |-> "QR-OTHER", supervisorId |-> 2, isActive |-> TRUE,
        locationName |-> "Other", areaCity |-> "Delhi",
        coordinates |-> [latitude |-> 0, longitude |-> 0]] >>

----------------------------------------------------------------------------
\* Distance, radius test and rounding

\* geodesic(a, b).meters for two points of one meridian, in 1/UnitsPerMeter m.
geodesic(a, b) == Abs(a.latitude - b.latitude)

\* The integer nearest to n / d, ties to the even one: Python's round() on a
\* float that holds n / d exactly.
RoundHalfEven(n, d) ==
    LET q == n \div d
        r == n % d
    IN  IF 2 * r < d THEN q
        ELSE IF 2 * r > d THEN q + 1
        ELSE IF q % 2 = 0 THEN q ELSE q + 1

\* round(distance_meters, 2), in centimetres.
Round2(distance_meters) == RoundHalfEven(distance_meters * 100, UnitsPerMeter)

\* round(distance_meters, 1), in decimetres.
Round1(distance_meters) == RoundHalfEven(distance_meters * 10, UnitsPerMeter)

\* A radius test on the distance rounded for storage.
\* Radius thresholds the comparison is examined at: the configured one and the
\* smallest non-negative ones.
RadiusThresholds == {0, 1, WITHIN_RADIUS_METERS}

\* A comparison that excludes the threshold itself.
WithinThresholdStrict(distance_meters, radius) ==
    distance_meters < radius * UnitsPerMeter

\* distance_meters <= radius, the comparison of the handlers.
WithinThreshold(distance_meters, radius) ==
    distance_meters <= radius * UnitsPerMeter

IsWithinRadiusRounded(distance_meters) ==
    Round2(distance_meters) <= WITHIN_RADIUS_METERS * 100

\* The settings object as config.py builds it when the application starts.
InitSettings == [WITHIN_RADIUS_METERS |-> WITHIN_RADIUS_METERS]

\* distance_meters <= settings.WITHIN_RADIUS_METERS, on the unrounded distance.
IsWithinRadius(distance_meters) ==
    WithinThreshold(distance_meters, settings.WITHIN_RADIUS_METERS)

\* A message chosen by comparing the displayed (rounded) distance.
MessageFromDisplayedDistance(is_within_radius, distance_meters) ==
    IF Round2(distance_meters) <= WITHIN_RADIUS_METERS * 100
    THEN [text |-> "QR code scanned successfully", meters |-> 0]
    ELSE [text |-> "Warning: You are {}m away from the QR location",
          meters |-> Round1(distance_meters)]

\* The message of the verdict.
Message(is_within_radius, distance_meters) ==
    IF is_within_radius
    THEN [text |-> "QR code scanned successfully", meters |-> 0]
    ELSE [text |-> "Warning: You are {}m away from the QR location",
          meters |-> Round1(distance_meters)]

----------------------------------------------------------------------------
\* Handler frames

\* What the geocoding provider may do: return a result with an address,
\* return no result, raise an error, or raise a timeout.
GeocodeOutcomes == {"address", "no_result", "error", "timeout"}

\* A handler instance that is not serving a request.  geocode, insert and
\* mirror are history: whether the geocoding provider was called and answered
\* with an address ("not_called", "address", "nothing"), what became of
\* insert_one ("not_called", "accepted", "rejected"), and what became of the
\* spreadsheet write ("not_called", "skipped", "pending", "ok", "failed").
Idle ==
    [op |-> "idle", pc |-> "idle", serial |-> 0, req |-> Nothing, frame |-> Nothing,
     status |-> 0, detail |-> "", response |-> Nothing,
     geocode |-> "not_called", insert |-> "not_called", mirror |-> "not_called"]

\* A handler instance that serves no request: it has served none yet, or it
\* has answered the one it served (whose record stays until the next request).
AtRest(call) == call.pc \in {"idle", "done"}

\* The first handler instance that serves no request.
Vacant(c) ==
    /\ AtRest(calls[c])
    /\ \A d \in Calls : d < c => ~AtRest(calls[d])

\* Requests are served by the first free handler instance.
Free(c) ==
    /\ Vacant(c)
    /\ started < MaxCalls

\* A request enters a handler instance.
Accept(op, req) ==
    [Idle EXCEPT !.op = op, !.serial = started + 1, !.req = req]

\* raise HTTPException(status_code, detail): the frame is discarded.
Raise(call, status_code, detail) ==
    [call EXCEPT !.pc = "done", !.frame = Nothing,
                 !.status = status_code, !.detail = detail]

\* get_current_guard (services/auth_service.py): the identity the token resolves
\* to, a guard of the guards collection with its user's email and name.
CurrentGuard(guard) ==
    LET user == FindOne(users, LAMBDA u : u._id = guard.userId)
    IN  [guard_id |-> guard._id, supervisor_id |-> guard.supervisorId,
         email |-> user.email, name |-> user.name]

\* A lookup by qrId and active flag only, whatever the owning group.
\* A lookup that does not ask for an active location.
FindQrLocationAnyStatus(qrId, supervisor_id) ==
    FindOne(qr_locations, LAMBDA d : d.qrId = qrId /\ d.supervisorId = supervisor_id)

FindQrLocationAnyGroup(qrId, supervisor_id) ==
    FindOne(qr_locations, LAMBDA d : d.qrId = qrId /\ d.isActive)

\* find_one({"qrId": ..., "supervisorId": ..., "isActive": True})
FindQrLocation(qrId, supervisor_id) ==
    FindOne(qr_locations,
            LAMBDA d : d.qrId = qrId /\ d.supervisorId = supervisor_id /\ d.isActive)

\* The frame once the QR location is found: the distance and the radius test
\* are computed before the geocoding call is awaited.
LocatedFrame(guard_id, supervisor_id, guard_user, coordinates, qr_location) ==
    LET distance_meters == geodesic(coordinates, qr_location.coordinates)
    IN  [guard_id |-> guard_id, supervisor_id |-> supervisor_id,
         guard_email |-> guard_user.email, guard_name |-> guard_user.name,
         qr_location |-> qr_location,
         distance_meters |-> distance_meters,
         is_within_radius |-> IsWithinRadius(distance_meters),
         current_address |-> "", scan_event_doc |-> Nothing, inserted_id |-> 0,
         scan_event_data |-> Nothing]

\* The optional fields of the sample requests: a note and device metadata.
Notes == {"all clear"}

DeviceInfos == {"android-13"}

\* scan_event_doc of scan_qr_code, before insert_one gives it an _id.
ScanEventDoc(req, frame, current_address, now) ==
    [_id |-> 0,
     guardId |-> frame.guard_id,
     supervisorId |-> frame.supervisor_id,
     qrLocationId |-> frame.qr_location._id,
     qrId |-> req.qrId,
     locationName |-> frame.qr_location.locationName,
     coordinates |-> req.coordinates,
     address |-> current_address,
     areaCity |-> frame.qr_location.areaCity,
     isWithinRadius |-> frame.is_within_radius,
     distanceFromQR |-> Round2(frame.distance_meters),
     scannedAt |-> now,
     notes |-> req.notes]

\* scan_event_doc of public_scan_qr_code: the same fields and deviceInfo.
PublicScanEventDoc(req, frame, current_address, now) ==
    ScanEventDoc(req, frame, current_address, now) @@ [deviceInfo |-> req.deviceInfo]

\* scan_event_data, the row sent to the supervisor's spreadsheet.
ScanEventData(req, frame, supervisor) ==
    [sheetId |-> supervisor.sheetId,
     areaCity |-> supervisor.areaCity,
     guard_name |-> frame.guard_name,
     guard_email |-> frame.guard_email,
     location_name |-> frame.qr_location.locationName,
     qr_id |-> req.qrId,
     scanned_at |-> frame.scan_event_doc.scannedAt,
     coordinates |-> req.coordinates,
     address |-> frame.current_address,
     is_within_radius |-> frame.is_within_radius,
     distance_from_qr |-> Round2(frame.distance_meters)]

\* QRScanResponse(...) of scan_qr_code.
QRScanResponse(req, frame) ==
    [scanEventId |-> frame.inserted_id,
     qrId |-> req.qrId,
     locationName |-> frame.qr_location.locationName,
     isWithinRadius |-> frame.is_within_radius,
     distanceFromQR |-> Round2(frame.distance_meters),
     address |-> frame.current_address,
     scannedAt |-> frame.scan_event_doc.scannedAt,
     message |-> Message(frame.is_within_radius, frame.distance_meters)]

\* QRCodePublicScanResponse(...) of public_scan_qr_code.
QRCodePublicScanResponse(req, frame) ==
    [scanEventId |-> frame.inserted_id,
     success |-> TRUE,
     qrId |-> req.qrId,
     locationName |-> frame.qr_location.locationName,
     isWithinRadius |-> frame.is_within_radius,
     distanceFromQR |-> Round2(frame.distance_meters),
     radiusLimit |-> settings.WITHIN_RADIUS_METERS,
     address |-> frame.current_address,
     scannedAt |-> frame.scan_event_doc.scannedAt,
     message |-> Message(frame.is_within_radius, frame.distance_meters),
     guardName |-> frame.guard_name,
     areaCity |-> frame.qr_location.areaCity]

\* A verdict whose within-radius flag is recomputed from the displayed distance.
ScanResponseRecomputed(call) ==
    [(IF call.op = "scan_qr_code" THEN QRScanResponse(call.req, call.frame)
                                  ELSE QRCodePublicScanResponse(call.req, call.frame))
        EXCEPT !.isWithinRadius = IsWithinRadiusRounded(call.frame.distance_meters)]

\* The verdict of the endpoint that serves the call.
ScanResponse(call) ==
    IF call.op = "scan_qr_code" THEN QRScanResponse(call.req, call.frame)
                                ELSE QRCodePublicScanResponse(call.req, call.frame)

\* A handler that answers a scan beyond the radius with an error.
RespondWithinRadiusOnly(call, mirror) ==
    IF call.frame.is_within_radius
    THEN [call EXCEPT !.pc = "done", !.status = 200, !.mirror = mirror, !.frame = Nothing,
                      !.response = ScanResponse(call)]
    ELSE [call EXCEPT !.pc = "done", !.status = 400, !.mirror = mirror, !.frame = Nothing,
                      !.detail = "Outside the allowed radius"]

\* return response: the verdict leaves the handler.
Respond(call, mirror) ==
    [call EXCEPT !.pc = "done", !.status = 200, !.mirror = mirror, !.frame = Nothing,
                 !.response = ScanResponse(call)]

----------------------------------------------------------------------------
\* The steps shared by scan_qr_code and public_scan_qr_code

\* The QR location lookup returns: 404, or the distance is computed from the
\* request's coordinates and the geocoding call is issued.
Locate(c, call, qrId, guard_id, supervisor_id, guard_user) ==
    LET qr_location == FindQrLocation(qrId, supervisor_id)
        located == [call EXCEPT !.req = @ @@ [qrId |-> qrId]]
    IN  IF qr_location = NoDoc
        THEN calls' = [calls EXCEPT ![c] =
                 Raise(located, 404, "QR code not found or inactive")]
        ELSE \E coordinates \in Coordinates :
                 calls' = [calls EXCEPT ![c] =
                     [located EXCEPT
                         !.pc = "geocode",
                         !.req = @ @@ [coordinates |-> coordinates],
                         !.frame = LocatedFrame(guard_id, supervisor_id, guard_user,
                                                coordinates, qr_location)]]

\* A handler that stores a placeholder when the provider gives no address.
AddressOfPlaceholder(outcome) == IF outcome = "address" THEN "12 Main Rd" ELSE "Unknown"

\* The address the handler keeps after the geocoding call: the result's
\* formatted_address, or "" when the provider returned no result or raised.
AddressOf(outcome) == IF outcome = "address" THEN "12 Main Rd" ELSE ""

\* reverse_geocode_enhanced returns or raises; the handler builds
\* scan_event_doc and issues insert_one.
Geocode(c) ==
    /\ calls[c].pc = "geocode"
    /\ \E outcome \in GeocodeOutcomes, notes \in Notes, deviceInfo \in DeviceInfos :
          LET call == calls[c]
              current_address == AddressOf(outcome)
              scan_request == call.req @@ [notes |-> notes, deviceInfo |-> deviceInfo]
          IN  calls' = [calls EXCEPT ![c] =
                  [call EXCEPT !.pc = "insert_event",
                               !.req = scan_request,
                               !.geocode = IF outcome = "address" THEN "address"
                                                                  ELSE "nothing",
                               !.frame = [call.frame EXCEPT
                                   !.current_address = current_address,
                                   !.scan_event_doc =
                                       IF call.op = "scan_qr_code"
                                       THEN ScanEventDoc(scan_request, call.frame,
                                                         current_address, clock)
                                       ELSE PublicScanEventDoc(scan_request, call.frame,
                                                               current_address, clock)]]]
    /\ UNCHANGED <<users, guards, supervisors, qr_locations, scan_events,
                   clock, started, succeeded, event_owner, settings, config_requests>>

\* A store that recognises a repeated scan (same guard, QR code and coordinates)
\* and answers with the event it already holds.
InsertAcceptedDedup(c) ==
    LET call == calls[c]
        doc == call.frame.scan_event_doc
        same == {i \in 1..Len(scan_events) :
                    /\ scan_events[i].guardId = doc.guardId
                    /\ scan_events[i].qrId = doc.qrId
                    /\ scan_events[i].coordinates = doc.coordinates}
        inserted_id == IF same = {} THEN Len(scan_events) + 1
                       ELSE CHOOSE i \in same : TRUE
    IN  /\ scan_events' = IF same = {} THEN Append(scan_events, [doc EXCEPT !._id = inserted_id])
                          ELSE scan_events
        /\ event_owner' = IF same = {} THEN Append(event_owner, call.serial) ELSE event_owner
        /\ calls' = [calls EXCEPT ![c] =
               [call EXCEPT !.pc = "find_supervisor", !.insert = "accepted",
                            !.frame = [call.frame EXCEPT !.inserted_id = inserted_id]]]

\* A store that keeps one event slot and writes every insert into it.
InsertAcceptedReplaces(c) ==
    LET call == calls[c]
        inserted_id == IF scan_events = <<>> THEN 1 ELSE Len(scan_events)
        doc == [call.frame.scan_event_doc EXCEPT !._id = inserted_id]
    IN  /\ scan_events' = IF scan_events = <<>> THEN <<doc>>
                          ELSE [scan_events EXCEPT ![inserted_id] = doc]
        /\ event_owner' = IF scan_events = <<>> THEN <<call.serial>>
                          ELSE [event_owner EXCEPT ![inserted_id] = call.serial]
        /\ calls' = [calls EXCEPT ![c] =
               [call EXCEPT !.pc = "find_supervisor", !.insert = "accepted",
                            !.frame = [call.frame EXCEPT !.inserted_id = inserted_id]]]

\* An insert that is sent twice (a retry after a lost acknowledgement).
InsertAcceptedTwice(c) ==
    LET call == calls[c]
        inserted_id == Len(scan_events) + 2
    IN  /\ scan_events' = scan_events
                           \o << [call.frame.scan_event_doc EXCEPT !._id = inserted_id - 1],
                                 [call.frame.scan_event_doc EXCEPT !._id = inserted_id] >>
        /\ event_owner' = event_owner \o << call.serial, call.serial >>
        /\ calls' = [calls EXCEPT ![c] =
               [call EXCEPT !.pc = "find_supervisor", !.insert = "accepted",
                            !.frame = [call.frame EXCEPT !.inserted_id = inserted_id]]]

\* insert_one(scan_event_doc) is accepted by the store, which gives the
\* document its _id.
InsertAccepted(c) ==
    LET call == calls[c]
        inserted_id == Len(scan_events) + 1
    IN  /\ scan_events' = Append(scan_events,
                                 [call.frame.scan_event_doc EXCEPT !._id = inserted_id])
        /\ event_owner' = Append(event_owner, call.serial)
        /\ calls' = [calls EXCEPT ![c] =
               [call EXCEPT !.pc = "find_supervisor", !.insert = "accepted",
                            !.frame = [call.frame EXCEPT !.inserted_id = inserted_id]]]

\* An insert failure that is logged and swallowed like the spreadsheet's.
InsertRejectedSwallowed(c) ==
    /\ calls' = [calls EXCEPT ![c] =
           [calls[c] EXCEPT !.pc = "find_supervisor", !.insert = "rejected"]]
    /\ UNCHANGED <<scan_events, event_owner, settings, config_requests>>

\* An insert_one that raises although the document has been written.
InsertRejectedAfterWrite(c) ==
    LET call == calls[c]
        inserted_id == Len(scan_events) + 1
    IN  /\ scan_events' = Append(scan_events,
                                 [call.frame.scan_event_doc EXCEPT !._id = inserted_id])
        /\ event_owner' = Append(event_owner, call.serial)
        /\ calls' = [calls EXCEPT ![c] =
               Raise([call EXCEPT !.insert = "rejected"], 500, "Failed to process QR scan")]

\* insert_one raises: except Exception -> 500.
InsertRejected(c) ==
    /\ calls' = [calls EXCEPT ![c] =
           Raise([calls[c] EXCEPT !.insert = "rejected"], 500, "Failed to process QR scan")]
    /\ UNCHANGED <<scan_events, event_owner, settings, config_requests>>

\* A handler that also stamps the guard's record with the time of the scan.
InsertEventStampsGuard(c) ==
    /\ calls[c].pc = "insert_event"
    /\ \/ InsertAccepted(c)
       \/ InsertRejected(c)
    /\ guards' = [i \in 1..Len(guards) |->
                     IF guards[i]._id = calls[c].frame.guard_id
                     THEN [guards[i] EXCEPT !.updatedAt = clock]
                     ELSE guards[i]]
    /\ UNCHANGED <<users, supervisors, qr_locations, clock, started, succeeded, settings, config_requests>>

InsertEvent(c) ==
    /\ calls[c].pc = "insert_event"
    /\ \/ InsertAccepted(c)
       \/ InsertRejected(c)
    /\ UNCHANGED <<users, guards, supervisors, qr_locations,
                   clock, started, succeeded, settings, config_requests>>

\* supervisors.find_one returns: with a sheetId the row is sent to the
\* spreadsheet and the handler awaits the write; without, the handler responds.
SupervisorFound(c) ==
    LET call == calls[c]
        supervisor == FindOne(supervisors, LAMBDA s : s._id = call.frame.supervisor_id)
    IN  IF supervisor # NoDoc /\ supervisor.sheetId # ""
        THEN /\ calls' = [calls EXCEPT ![c] =
                    [call EXCEPT !.pc = "append_sheet", !.mirror = "pending",
                                 !.frame = [call.frame EXCEPT !.scan_event_data =
                                     ScanEventData(call.req, call.frame, supervisor)]]]
             /\ UNCHANGED succeeded
        ELSE /\ calls' = [calls EXCEPT ![c] = Respond(call, "skipped")]
             /\ succeeded' = succeeded + 1

\* supervisors.find_one raises: the exception is logged and the handler responds.
SupervisorLookupFails(c) ==
    /\ calls' = [calls EXCEPT ![c] = Respond(calls[c], "failed")]
    /\ succeeded' = succeeded + 1

FindSupervisor(c) ==
    /\ calls[c].pc = "find_supervisor"
    /\ \/ SupervisorFound(c)
       \/ SupervisorLookupFails(c)
    /\ UNCHANGED <<users, guards, supervisors, qr_locations, scan_events,
                   clock, started, event_owner, settings, config_requests>>

\* append_scan_to_sheet returns: the row is in the spreadsheet (which is not
\* part of this program's state), the handler responds.
SheetAppended(c) ==
    calls' = [calls EXCEPT ![c] = Respond(calls[c], "ok")]

\* A spreadsheet failure that reaches the handler's outer except clause.
SheetFailsRaises(c) ==
    calls' = [calls EXCEPT ![c] = Raise(calls[c], 500, "Failed to process QR scan")]

\* append_scan_to_sheet raises: the exception is logged and the handler responds.
SheetFails(c) ==
    calls' = [calls EXCEPT ![c] = Respond(calls[c], "failed")]

\* The handler is suspended at `await excel_service.append_scan_to_sheet(...)`
\* until the write returns or raises; nothing bounds how long that takes.
AppendSheet(c) ==
    /\ calls[c].pc = "append_sheet"
    /\ \/ SheetAppended(c)
       \/ SheetFails(c)
    /\ succeeded' = succeeded + 1
    /\ UNCHANGED <<users, guards, supervisors, qr_locations, scan_events,
                   clock, started, event_owner, settings, config_requests>>

----------------------------------------------------------------------------
\* POST /scan-qr (guard_routes.scan_qr_code)

\* The request arrives: its coordinates are out of range (422, the handler is
\* not called), or a collection is unavailable (503), or the QR location lookup
\* is issued and returns.
ScanBegin(c) ==
    /\ Free(c)
    /\ started' = started + 1
    /\ clock' = clock + 1
    /\ \/ \E degrees \in DegreeSamples :
             /\ ~ValidCoordinates(degrees)
             /\ calls' = [calls EXCEPT ![c] =
                    Raise(Accept("scan_qr_code", [degrees |-> degrees]),
                          422, "Invalid coordinates")]
       \/ calls' = [calls EXCEPT ![c] =
             Raise(Accept("scan_qr_code", Nothing), 503, "Database not available")]
       \/ \E g \in 1..Len(guards), qrId \in QrIds, degrees \in DegreeSamples :
             LET current_guard == CurrentGuard(guards[g])
                 scan_request == [guardEmail |-> current_guard.email,
                                  degrees |-> degrees]
             IN  /\ ValidCoordinates(degrees)
                 /\ Locate(c, Accept("scan_qr_code", scan_request), qrId,
                           current_guard.guard_id, current_guard.supervisor_id,
                           current_guard)
    /\ UNCHANGED <<users, guards, supervisors, qr_locations, scan_events,
                   succeeded, event_owner, settings, config_requests>>

ScanGeocode(c) == calls[c].op = "scan_qr_code" /\ Geocode(c)

ScanInsertEvent(c) == calls[c].op = "scan_qr_code" /\ InsertEvent(c)

ScanFindSupervisor(c) == calls[c].op = "scan_qr_code" /\ FindSupervisor(c)

ScanAppendSheet(c) == calls[c].op = "scan_qr_code" /\ AppendSheet(c)

----------------------------------------------------------------------------
\* POST /public/scan (qr_routes.public_scan_qr_code)

\* users.find_one({"email": ..., "role": "GUARD", "isActive": True})
FindGuardUser(guardEmail) ==
    FindOne(users, LAMBDA u : /\ u.email = guardEmail
                              /\ u.role = "GUARD"
                              /\ u.isActive)

\* The request arrives: its coordinates are out of range (422, the handler is
\* not called), or a collection is unavailable (503), or the guard's user is
\* looked up by email, role and active flag.
PublicArrives(c) ==
    /\ Vacant(c)
    /\ started' = started + 1
    /\ clock' = clock + 1
    /\ \/ \E degrees \in DegreeSamples :
             /\ ~ValidCoordinates(degrees)
             /\ calls' = [calls EXCEPT ![c] =
                    Raise(Accept("public_scan_qr_code", [degrees |-> degrees]),
                          422, "Invalid coordinates")]
       \/ calls' = [calls EXCEPT ![c] =
             Raise(Accept("public_scan_qr_code", Nothing), 503, "Database not available")]
       \/ \E guardEmail \in Emails, degrees \in DegreeSamples :
             LET scan_request == [guardEmail |-> guardEmail, degrees |-> degrees]
                 call == Accept("public_scan_qr_code", scan_request)
                 guard_user == FindGuardUser(guardEmail)
             IN  /\ ValidCoordinates(degrees)
                 /\ calls' = [calls EXCEPT ![c] =
                        IF guard_user = NoDoc
                        THEN Raise(call, 404, "Guard not found or inactive")
                        ELSE [call EXCEPT !.pc = "find_guard",
                                          !.frame = [guard_user |-> guard_user]]]
    /\ UNCHANGED <<users, guards, supervisors, qr_locations, scan_events,
                   succeeded, event_owner, settings, config_requests>>

\* A public_scan_qr_code request arrives while requests are still to come.
PublicBegin(c) == started < MaxCalls /\ PublicArrives(c)

\* guards.find_one({"userId": ...}) returns.
PublicFindGuard(c) ==
    /\ calls[c].op = "public_scan_qr_code"
    /\ calls[c].pc = "find_guard"
    /\ LET call == calls[c]
           guard == FindOne(guards, LAMBDA g : g.userId = call.frame.guard_user._id)
       IN  calls' = [calls EXCEPT ![c] =
               IF guard = NoDoc
               THEN Raise(call, 404, "Guard profile not found")
               ELSE [call EXCEPT !.pc = "find_location",
                                 !.frame = [@ EXCEPT !.guard_user = call.frame.guard_user]
                                           @@ [guard |-> guard]]]
    /\ UNCHANGED <<users, guards, supervisors, qr_locations, scan_events,
                   clock, started, succeeded, event_owner, settings, config_requests>>

\* qr_locations.find_one returns.
PublicFindLocation(c) ==
    /\ calls[c].op = "public_scan_qr_code"
    /\ calls[c].pc = "find_location"
    /\ \E qrId \in QrIds :
          LET call == calls[c]
          IN  Locate(c, call, qrId, call.frame.guard._id, call.frame.guard.supervisorId,
                     call.frame.guard_user)
    /\ UNCHANGED <<users, guards, supervisors, qr_locations, scan_events,
                   clock, started, succeeded, event_owner, settings, config_requests>>

PublicGeocode(c) == calls[c].op = "public_scan_qr_code" /\ Geocode(c)

PublicInsertEvent(c) == calls[c].op = "public_scan_qr_code" /\ InsertEvent(c)

PublicFindSupervisor(c) == calls[c].op = "public_scan_qr_code" /\ FindSupervisor(c)

PublicAppendSheet(c) == calls[c].op = "public_scan_qr_code" /\ AppendSheet(c)

----------------------------------------------------------------------------
\* DELETE /users/{user_id} (admin_routes.disable_user)

\* get_current_admin (services/auth_service.py): the identity the token resolves
\* to, an active user with role ADMIN.
CurrentAdmins == {i \in 1..Len(users) : users[i].role = "ADMIN" /\ users[i].isActive}

\* The user ids of disable_user requests: an administrator's, a guard's, the
\* id of the first user that a create call adds, an id that no user has.
DisableTargets == {1, 5, 6, 99}

\* A handler without the check of the target's role.
DisableArrivesAnyTarget(c) ==
    /\ Vacant(c)
    /\ started' = started + 1
    /\ clock' = clock + 1
    /\ \/ calls' = [calls EXCEPT ![c] =
             Raise(Accept("disable_user", Nothing), 503, "Database not available")]
       \/ \E a \in CurrentAdmins, user_id \in DisableTargets :
             LET current_admin == users[a]
                 call == Accept("disable_user",
                                [user_id |-> user_id, admin_id |-> current_admin._id])
                 user_to_disable == FindOne(users, LAMBDA u : u._id = user_id)
             IN  calls' = [calls EXCEPT ![c] =
                     IF user_to_disable = NoDoc
                     THEN Raise(call, 404, "User not found")
                     ELSE [call EXCEPT !.pc = "update_user",
                                       !.frame = [updatedAt |-> clock']]]
    /\ UNCHANGED <<users, guards, supervisors, qr_locations, scan_events,
                   succeeded, event_owner, settings, config_requests>>

\* The request arrives: 503, or the user is looked up: 404, 403 (another
\* administrator), or the update document is built (datetime.utcnow() is read)
\* and update_one is issued.
DisableArrives(c) ==
    /\ Vacant(c)
    /\ started' = started + 1
    /\ clock' = clock + 1
    /\ \/ calls' = [calls EXCEPT ![c] =
             Raise(Accept("disable_user", Nothing), 503, "Database not available")]
       \/ \E a \in CurrentAdmins, user_id \in DisableTargets :
             LET current_admin == users[a]
                 call == Accept("disable_user",
                                [user_id |-> user_id, admin_id |-> current_admin._id])
                 user_to_disable == FindOne(users, LAMBDA u : u._id = user_id)
             IN  calls' = [calls EXCEPT ![c] =
                     IF user_to_disable = NoDoc
                     THEN Raise(call, 404, "User not found")
                     ELSE IF /\ user_to_disable.role = "ADMIN"
                             /\ user_to_disable._id # current_admin._id
                     THEN Raise(call, 403, "Cannot disable other admin accounts")
                     ELSE [call EXCEPT !.pc = "update_user",
                                       !.frame = [updatedAt |-> clock']]]
    /\ UNCHANGED <<users, guards, supervisors, qr_locations, scan_events,
                   succeeded, event_owner, settings, config_requests>>

\* A disable_user request arrives while requests are still to come.
DisableBegin(c) == started < MaxCalls /\ DisableArrives(c)

\* An update that flips the active flag instead of clearing it.
DisableUserToggles(coll, user_id, now) ==
    [i \in 1..Len(coll) |->
        IF coll[i]._id = user_id
        THEN [coll[i] EXCEPT !.isActive = ~@, !.updatedAt = now]
        ELSE coll[i]]

\* update_one({"_id": ...}, {"$set": {"isActive": False, "updatedAt": now}})
DisableUser(coll, user_id, now) ==
    [i \in 1..Len(coll) |->
        IF coll[i]._id = user_id
        THEN [coll[i] EXCEPT !.isActive = FALSE, !.updatedAt = now]
        ELSE coll[i]]

\* update_one returns: the document built when it was issued is applied.
DisableUpdated(c) ==
    LET call == calls[c]
        matched_count == Cardinality({i \in 1..Len(users) : users[i]._id = call.req.user_id})
    IN  /\ users' = DisableUser(users, call.req.user_id, call.frame.updatedAt)
        /\ calls' = [calls EXCEPT ![c] =
               IF matched_count = 0
               THEN Raise(call, 404, "User not found")
               ELSE [call EXCEPT !.pc = "done", !.status = 200, !.frame = Nothing,
                                 !.response = [message |-> "User account disabled successfully"]]]

\* update_one raises: except Exception -> 500.
DisableRejected(c) ==
    /\ calls' = [calls EXCEPT ![c] = Raise(calls[c], 500, "Failed to disable user")]
    /\ UNCHANGED users

DisableUpdate(c) ==
    /\ calls[c].op = "disable_user"
    /\ calls[c].pc = "update_user"
    /\ \/ DisableUpdated(c)
       \/ DisableRejected(c)
    /\ UNCHANGED <<guards, supervisors, qr_locations, scan_events,
                   clock, started, succeeded, event_owner, settings, config_requests>>

----------------------------------------------------------------------------
\* POST /supervisors (admin_routes.create_supervisor)

\* user_doc of create_supervisor and create_guard, before insert_one.
UserDoc(email, role, areaCity, now) ==
    [_id |-> 0, email |-> email, name |-> "New", role |-> role, isActive |-> TRUE,
     areaCity |-> areaCity, createdAt |-> now, updatedAt |-> now]

\* insert_one: the store gives the document the next _id of the collection.
Inserted(coll, doc) == Append(coll, [doc EXCEPT !._id = Len(coll) + 1])

\* The request arrives: 503, or the email is looked up: 400, or the user
\* document is built and insert_one is issued.
CreateSupervisorBegin(c) ==
    /\ Free(c)
    /\ started' = started + 1
    /\ clock' = clock + 1
    /\ \/ calls' = [calls EXCEPT ![c] =
             Raise(Accept("create_supervisor", Nothing), 503, "Database not available")]
       \/ \E email \in Emails :
             LET call == Accept("create_supervisor",
                                [email |-> email, areaCity |-> "Goa", sheetId |-> "sheet-3"])
                 existing_user == FindOne(users, LAMBDA u : u.email = email)
             IN  calls' = [calls EXCEPT ![c] =
                     IF existing_user # NoDoc
                     THEN Raise(call, 400, "Email already registered")
                     ELSE [call EXCEPT
                              !.pc = "cs_insert_user",
                              !.frame = [user_doc |-> UserDoc(email, "SUPERVISOR", "Goa", clock'),
                                         user_id |-> 0, supervisor_doc |-> Nothing,
                                         supervisor_id |-> 0,
                                         created_supervisor |-> Nothing]]]
    /\ UNCHANGED <<users, guards, supervisors, qr_locations, scan_events,
                   succeeded, event_owner, settings, config_requests>>

\* supervisor_doc, before insert_one.
SupervisorDoc(req, user_id, now) ==
    [_id |-> 0, userId |-> user_id, areaCity |-> req.areaCity, sheetId |-> req.sheetId,
     assignedGuards |-> <<>>, createdAt |-> now, updatedAt |-> now]

\* users.insert_one returns, supervisor_doc is built (datetime.utcnow() is
\* read) and its insert_one is issued; or users.insert_one raises.
CreateSupervisorInsertUser(c) ==
    /\ calls[c].op = "create_supervisor"
    /\ calls[c].pc = "cs_insert_user"
    /\ \/ /\ users' = Inserted(users, calls[c].frame.user_doc)
          /\ calls' = [calls EXCEPT ![c] =
                 [calls[c] EXCEPT
                     !.pc = "cs_insert_supervisor",
                     !.frame = [@ EXCEPT
                         !.user_id = Len(users) + 1,
                         !.supervisor_doc = SupervisorDoc(calls[c].req,
                                                          Len(users) + 1, clock)]]]
       \/ /\ calls' = [calls EXCEPT ![c] =
                 Raise(calls[c], 500, "Failed to create supervisor")]
          /\ UNCHANGED users
    /\ UNCHANGED <<guards, supervisors, qr_locations, scan_events,
                   clock, started, succeeded, event_owner, settings, config_requests>>

\* supervisors.insert_one returns or raises.
CreateSupervisorInsertSupervisor(c) ==
    /\ calls[c].op = "create_supervisor"
    /\ calls[c].pc = "cs_insert_supervisor"
    /\ \/ /\ supervisors' = Inserted(supervisors, calls[c].frame.supervisor_doc)
          /\ calls' = [calls EXCEPT ![c] =
                 [calls[c] EXCEPT !.pc = "cs_read_supervisor",
                                  !.frame = [@ EXCEPT !.supervisor_id = Len(supervisors) + 1]]]
       \/ /\ calls' = [calls EXCEPT ![c] =
                 Raise(calls[c], 500, "Failed to create supervisor")]
          /\ UNCHANGED supervisors
    /\ UNCHANGED <<users, guards, qr_locations, scan_events,
                   clock, started, succeeded, event_owner, settings, config_requests>>

\* supervisors.find_one of the created supervisor returns.
CreateSupervisorReadSupervisor(c) ==
    /\ calls[c].op = "create_supervisor"
    /\ calls[c].pc = "cs_read_supervisor"
    /\ LET call == calls[c]
           created_supervisor == FindOne(supervisors,
                                         LAMBDA d : d._id = call.frame.supervisor_id)
       IN  calls' = [calls EXCEPT ![c] =
               [call EXCEPT !.pc = "cs_read_user",
                            !.frame = [@ EXCEPT !.created_supervisor = created_supervisor]]]
    /\ UNCHANGED <<users, guards, supervisors, qr_locations, scan_events,
                   clock, started, succeeded, event_owner, settings, config_requests>>

\* users.find_one of the created user returns and the response is returned.
CreateSupervisorReadUser(c) ==
    /\ calls[c].op = "create_supervisor"
    /\ calls[c].pc = "cs_read_user"
    /\ LET call == calls[c]
           created_supervisor == call.frame.created_supervisor
           created_user == FindOne(users, LAMBDA u : u._id = call.frame.user_id)
       IN  calls' = [calls EXCEPT ![c] =
               [call EXCEPT !.pc = "done", !.status = 200, !.frame = Nothing,
                            !.response = [id |-> created_supervisor._id,
                                          userId |-> created_supervisor.userId,
                                          email |-> created_user.email,
                                          areaCity |-> created_supervisor.areaCity,
                                          sheetId |-> created_supervisor.sheetId,
                                          assignedGuards |-> created_supervisor.assignedGuards,
                                          isActive |-> created_user.isActive]]]
    /\ UNCHANGED <<users, guards, supervisors, qr_locations, scan_events,
                   clock, started, succeeded, event_owner, settings, config_requests>>

----------------------------------------------------------------------------
\* POST /guards (admin_routes.create_guard)

\* The supervisor ids of create_guard requests: the two supervisors', and an
\* id that no supervisor has.
SupervisorIds == {1, 2, 99}

\* The request arrives: 503, or the email is looked up: 400, or the
\* supervisor lookup is issued.
CreateGuardArrives(c) ==
    /\ Vacant(c)
    /\ started' = started + 1
    /\ clock' = clock + 1
    /\ \/ calls' = [calls EXCEPT ![c] =
             Raise(Accept("create_guard", Nothing), 503, "Database not available")]
       \/ \E email \in Emails :
             LET call == Accept("create_guard", [email |-> email])
                 existing_user == FindOne(users, LAMBDA u : u.email = email)
             IN  calls' = [calls EXCEPT ![c] =
                     IF existing_user # NoDoc
                     THEN Raise(call, 400, "Email already registered")
                     ELSE [call EXCEPT !.pc = "cg_find_supervisor"]]
    /\ UNCHANGED <<users, guards, supervisors, qr_locations, scan_events,
                   succeeded, event_owner, settings, config_requests>>

\* A create_guard request arrives while requests are still to come.
CreateGuardBegin(c) == started < MaxCalls /\ CreateGuardArrives(c)

\* supervisors.find_one returns: 404, or the user document is built (the guard
\* inherits the supervisor's area) and insert_one is issued.
CreateGuardFindSupervisor(c) ==
    /\ calls[c].op = "create_guard"
    /\ calls[c].pc = "cg_find_supervisor"
    /\ \E supervisorId \in SupervisorIds :
          LET call == [calls[c] EXCEPT !.req = @ @@ [supervisorId |-> supervisorId]]
              supervisor == FindOne(supervisors, LAMBDA d : d._id = supervisorId)
          IN  calls' = [calls EXCEPT ![c] =
                  IF supervisor = NoDoc
                  THEN Raise(call, 404, "Supervisor not found")
                  ELSE [call EXCEPT
                           !.pc = "cg_insert_user",
                           !.frame = [user_doc |-> UserDoc(call.req.email, "GUARD",
                                                           supervisor.areaCity, clock),
                                      user_id |-> 0, guard_doc |-> Nothing,
                                      guard_id |-> 0, updatedAt |-> 0,
                                      created_guard |-> Nothing]]]
    /\ UNCHANGED <<users, guards, supervisors, qr_locations, scan_events,
                   clock, started, succeeded, event_owner, settings, config_requests>>

\* guard_doc, before insert_one.
GuardDoc(req, user_id, now) ==
    [_id |-> 0, userId |-> user_id, supervisorId |-> req.supervisorId,
     createdAt |-> now, updatedAt |-> now]

\* users.insert_one returns, guard_doc is built (datetime.utcnow() is read)
\* and its insert_one is issued; or users.insert_one raises.
CreateGuardInsertUser(c) ==
    /\ calls[c].op = "create_guard"
    /\ calls[c].pc = "cg_insert_user"
    /\ \/ /\ users' = Inserted(users, calls[c].frame.user_doc)
          /\ calls' = [calls EXCEPT ![c] =
                 [calls[c] EXCEPT
                     !.pc = "cg_insert_guard",
                     !.frame = [@ EXCEPT
                         !.user_id = Len(users) + 1,
                         !.guard_doc = GuardDoc(calls[c].req, Len(users) + 1, clock)]]]
       \/ /\ calls' = [calls EXCEPT ![c] = Raise(calls[c], 500, "Failed to create guard")]
          /\ UNCHANGED users
    /\ UNCHANGED <<guards, supervisors, qr_locations, scan_events,
                   clock, started, succeeded, event_owner, settings, config_requests>>

\* guards.insert_one returns, the update document of the supervisor is built
\* (datetime.utcnow() is read) and update_one is issued; or insert_one raises.
CreateGuardInsertGuard(c) ==
    /\ calls[c].op = "create_guard"
    /\ calls[c].pc = "cg_insert_guard"
    /\ \/ /\ guards' = Inserted(guards, calls[c].frame.guard_doc)
          /\ calls' = [calls EXCEPT ![c] =
                 [calls[c] EXCEPT !.pc = "cg_push_guard",
                                  !.frame = [@ EXCEPT !.guard_id = Len(guards) + 1,
                                                      !.updatedAt = clock]]]
       \/ /\ calls' = [calls EXCEPT ![c] = Raise(calls[c], 500, "Failed to create guard")]
          /\ UNCHANGED guards
    /\ UNCHANGED <<users, supervisors, qr_locations, scan_events,
                   clock, started, succeeded, event_owner, settings, config_requests>>

\* An update that is not filtered by the supervisor's _id.
PushGuardEverySupervisor(coll, supervisorId, guard_id, now) ==
    [i \in 1..Len(coll) |->
        [coll[i] EXCEPT !.assignedGuards = Append(@, guard_id), !.updatedAt = now]]

\* update_one({"_id": supervisorId}, {"$push": {"assignedGuards": ...},
\*                                    "$set": {"updatedAt": now}})
PushGuard(coll, supervisorId, guard_id, now) ==
    [i \in 1..Len(coll) |->
        IF coll[i]._id = supervisorId
        THEN [coll[i] EXCEPT !.assignedGuards = Append(@, guard_id), !.updatedAt = now]
        ELSE coll[i]]

\* supervisors.update_one returns or raises.
CreateGuardPushGuard(c) ==
    /\ calls[c].op = "create_guard"
    /\ calls[c].pc = "cg_push_guard"
    /\ \/ /\ supervisors' = PushGuard(supervisors, calls[c].req.supervisorId,
                                      calls[c].frame.guard_id, calls[c].frame.updatedAt)
          /\ calls' = [calls EXCEPT ![c] = [calls[c] EXCEPT !.pc = "cg_read_guard"]]
       \/ /\ calls' = [calls EXCEPT ![c] = Raise(calls[c], 500, "Failed to create guard")]
          /\ UNCHANGED supervisors
    /\ UNCHANGED <<users, guards, qr_locations, scan_events,
                   clock, started, succeeded, event_owner, settings, config_requests>>

\* guards.find_one of the created guard returns.
CreateGuardReadGuard(c) ==
    /\ calls[c].op = "create_guard"
    /\ calls[c].pc = "cg_read_guard"
    /\ LET call == calls[c]
           created_guard == FindOne(guards, LAMBDA d : d._id = call.frame.guard_id)
       IN  calls' = [calls EXCEPT ![c] =
               [call EXCEPT !.pc = "cg_read_user",
                            !.frame = [@ EXCEPT !.created_guard = created_guard]]]
    /\ UNCHANGED <<users, guards, supervisors, qr_locations, scan_events,
                   clock, started, succeeded, event_owner, settings, config_requests>>

\* users.find_one of the created user returns and the response is returned.
CreateGuardReadUser(c) ==
    /\ calls[c].op = "create_guard"
    /\ calls[c].pc = "cg_read_user"
    /\ LET call == calls[c]
           created_guard == call.frame.created_guard
           created_user == FindOne(users, LAMBDA u : u._id = call.frame.user_id)
       IN  calls' = [calls EXCEPT ![c] =
               [call EXCEPT !.pc = "done", !.status = 200, !.frame = Nothing,
                            !.response = [id |-> created_guard._id,
                                          userId |-> created_guard.userId,
                                          supervisorId |-> created_guard.supervisorId,
                                          email |-> created_user.email,
                                          areaCity |-> created_user.areaCity,
                                          isActive |-> created_user.isActive]]]
    /\ UNCHANGED <<users, guards, supervisors, qr_locations, scan_events,
                   clock, started, succeeded, event_owner, settings, config_requests>>

----------------------------------------------------------------------------
\* The message of update_system_config's SuccessResponse.
SystemConfigMessage ==
    "System configuration update requested. Changes require application restart to take effect."

\* An update_system_config that stores the requested radius in the settings.
UpdateSystemConfigStores(c) ==
    /\ Free(c)
    /\ started' = started + 1
    /\ clock' = clock + 1
    /\ config_requests' = config_requests + 1
    /\ \E within_radius_meters \in RadiusThresholds :
          /\ calls' = [calls EXCEPT ![c] =
                 [Accept("update_system_config",
                         [within_radius_meters |-> within_radius_meters]) EXCEPT
                     !.pc = "done", !.status = 200,
                     !.response = [message |-> SystemConfigMessage]]]
          /\ settings' = [settings EXCEPT !.WITHIN_RADIUS_METERS = within_radius_meters]
    /\ UNCHANGED <<users, guards, supervisors, qr_locations, scan_events,
                   succeeded, event_owner>>

\* PUT /system/config (admin_routes.update_system_config): the requested
\* values (here the radius) are logged and the request answered; nothing is
\* stored and the settings object is not assigned.
UpdateSystemConfig(c) ==
    /\ Free(c)
    /\ started' = started + 1
    /\ clock' = clock + 1
    /\ config_requests' = config_requests + 1
    /\ \E within_radius_meters \in RadiusThresholds :
          calls' = [calls EXCEPT ![c] =
              [Accept("update_system_config",
                      [within_radius_meters |-> within_radius_meters]) EXCEPT
                  !.pc = "done", !.status = 200,
                  !.response = [message |-> SystemConfigMessage]]]
    /\ UNCHANGED <<users, guards, supervisors, qr_locations, scan_events,
                   succeeded, event_owner, settings>>

\* The endpoints that only read (find, count_documents, aggregate) and answer.
ReadOnlyOps ==
    {"get_scan_history", "get_available_qr_locations",
     "get_guard_profile", "get_qr_location_info",
     "generate_qr_code", "bulk_generate_qr_codes",
     "get_admin_dashboard", "list_users",
     "generate_area_report", "get_system_config"}

\* A read-only endpoint is served: no collection is written.
ReadOnly(c) ==
    /\ Free(c)
    /\ started' = started + 1
    /\ clock' = clock + 1
    /\ \E op \in ReadOnlyOps :
          calls' = [calls EXCEPT ![c] = [Accept(op, Nothing) EXCEPT !.pc = "done"]]
    /\ UNCHANGED <<users, guards, supervisors, qr_locations, scan_events,
                   succeeded, event_owner, settings, config_requests>>

----------------------------------------------------------------------------
\* GET /validate/{qr_id} (qr_routes.validate_qr_code)

\* The answer for a QR location found active, and for none.
ValidatedResponse(qr_id, qr_location) ==
    IF qr_location = NoDoc
    THEN [valid |-> FALSE, qr_id |-> qr_id, location_name |-> "",
          area_city |-> "", message |-> "QR code not found or inactive"]
    ELSE [valid |-> TRUE, qr_id |-> qr_id,
          location_name |-> qr_location.locationName,
          area_city |-> qr_location.areaCity,
          message |-> "QR code is valid and active"]

\* The request arrives.  With the collection unavailable the handler raises
\* the 503 inside its try block, whose only handler, except Exception, takes
\* every exception (HTTPException is one) and raises 500 in its place.
\* Otherwise the location is looked up by qrId and active flag and answered.
ValidateQrCode(c) ==
    /\ Free(c)
    /\ started' = started + 1
    /\ clock' = clock + 1
    /\ \/ calls' = [calls EXCEPT ![c] =
             Raise(Raise(Accept("validate_qr_code", Nothing),
                         503, "Database not available"),
                   500, "Failed to validate QR code")]
       \/ \E qr_id \in QrIds :
             LET call == Accept("validate_qr_code", [qr_id |-> qr_id])
                 qr_location == FindOne(qr_locations,
                                        LAMBDA d : d.qrId = qr_id /\ d.isActive)
             IN  calls' = [calls EXCEPT ![c] =
                     [call EXCEPT !.pc = "done", !.status = 200,
                                  !.response = ValidatedResponse(qr_id, qr_location)]]
    /\ UNCHANGED <<users, guards, supervisors, qr_locations, scan_events,
                   succeeded, event_owner, settings, config_requests>>

----------------------------------------------------------------------------
\* GET /supervisors and GET /guards (admin_routes.list_supervisors, list_guards)

\* The query parameters of the sample requests: skip (ge 0) and limit (ge 1);
\* the active filter, absent or a boolean; the area_city filter, absent (""),
\* the beginning of a city name in lower case, or a letter that two of the
\* cities have; the supervisor_id filter of list_guards, absent (0) or an id.
Skips == {0, 1}

Limits == {1, 2}

ActiveFilters == {"none", "true", "false"}

AreaCityFilters == {"", "pu", "e"}

SupervisorIdFilters == {0, 1}

\* {"user_data.isActive": active}, added when active is not None.
MatchesActive(active, isActive) ==
    active = "none" \/ (active = "true") = isActive

\* The letters in upper case, each with the letter in lower case.
LowerCase ==
    [A |-> "a", B |-> "b", C |-> "c", D |-> "d", E |-> "e", F |-> "f",
     G |-> "g", H |-> "h", I |-> "i", J |-> "j", K |-> "k", L |-> "l",
     M |-> "m", N |-> "n", O |-> "o", P |-> "p", Q |-> "q", R |-> "r",
     S |-> "s", T |-> "t", U |-> "u", V |-> "v", W |-> "w", X |-> "x",
     Y |-> "y", Z |-> "z"]

\* The character ch, in lower case when it is a letter.
ToLower(ch) == IF ch \in DOMAIN LowerCase THEN LowerCase[ch] ELSE ch

\* Whether the character p of a pattern matches the character ch with
\* "$options": "i": "." matches every character, any other character itself
\* in either case.
CharMatches(p, ch) == p = "." \/ ToLower(p) = ToLower(ch)

\* {"$regex": pattern, "$options": "i"} on the string text: the pattern is
\* searched for anywhere in the text, case-insensitively. The patterns are
\* the ones made of letters, digits, blanks and ".", with "^" allowed as the
\* first character (the match begins the text) and "$" as the last (the match
\* ends it).
RegexSearch(pattern, text) ==
    LET from_start == Len(pattern) > 0 /\ SubSeq(pattern, 1, 1) = "^"
        unanchored == IF from_start THEN SubSeq(pattern, 2, Len(pattern)) ELSE pattern
        to_end == /\ Len(unanchored) > 0
                  /\ SubSeq(unanchored, Len(unanchored), Len(unanchored)) = "$"
        body == IF to_end THEN SubSeq(unanchored, 1, Len(unanchored) - 1)
                ELSE unanchored
        starts == IF from_start THEN {1} ELSE 1..(Len(text) + 1)
    IN  \E i \in starts :
            /\ i + Len(body) - 1 <= Len(text)
            /\ to_end => i + Len(body) - 1 = Len(text)
            /\ \A k \in 1..Len(body) :
                   CharMatches(SubSeq(body, k, k),
                               SubSeq(text, i + k - 1, i + k - 1))

\* {"$regex": area_city, "$options": "i"}, added when area_city is given.
MatchesAreaCity(area_city, areaCity) ==
    area_city = "" \/ RegexSearch(area_city, areaCity)

\* {"$lookup": {"from": "users", ...}}, {"$unwind": "$user_data"}: each
\* document with its user; a document without a user is dropped.
RECURSIVE WithUserData(_)
WithUserData(docs) ==
    IF docs = << >> THEN << >>
    ELSE LET doc == Head(docs)
             user == FindOne(users, LAMBDA u : u._id = doc.userId)
         IN  (IF user = NoDoc THEN << >> ELSE << doc @@ [user_data |-> user] >>)
             \o WithUserData(Tail(docs))

\* {"$skip": skip}
SkipStage(docs, skip) ==
    IF skip >= Len(docs) THEN << >> ELSE SubSeq(docs, skip + 1, Len(docs))

\* {"$limit": limit}
LimitStage(docs, limit) ==
    IF limit >= Len(docs) THEN docs ELSE SubSeq(docs, 1, limit)

\* {"$sort": {"createdAt": -1}}: newest first, equal times in the order given.
RECURSIVE SortStage(_)
SortStage(docs) ==
    IF docs = << >> THEN << >>
    ELSE LET doc == Head(docs)
             rest == SortStage(Tail(docs))
             newer == Cardinality({i \in 1..Len(rest) : rest[i].createdAt > doc.createdAt})
         IN  SubSeq(rest, 1, newer) \o << doc >> \o SubSeq(rest, newer + 1, Len(rest))

\* The filter stages of list_supervisors, without the paging.
SupervisorsMatching(area_city, active) ==
    LET matched == SelectSeq(supervisors,
                             LAMBDA d : MatchesAreaCity(area_city, d.areaCity))
    IN  SelectSeq(WithUserData(matched),
                  LAMBDA d : MatchesActive(active, d.user_data.isActive))

\* The filter stages of list_guards, without the paging.
GuardsMatching(supervisor_id, area_city, active) ==
    LET matched == SelectSeq(guards,
                             LAMBDA d : supervisor_id = 0 \/ d.supervisorId = supervisor_id)
    IN  SelectSeq(WithUserData(matched),
                  LAMBDA d : /\ MatchesActive(active, d.user_data.isActive)
                             /\ MatchesAreaCity(area_city, d.user_data.areaCity))

\* The tail of both pipelines: $skip, $limit, then $sort.  The documents
\* reach $skip in the order of the collection.
PageStages(docs, skip, limit) ==
    SortStage(LimitStage(SkipStage(docs, skip), limit))

\* SupervisorResponse and GuardResponse of a listed document.
ListedResponse(doc) ==
    [id |-> doc._id, userId |-> doc.userId, email |-> doc.user_data.email,
     isActive |-> doc.user_data.isActive, createdAt |-> doc.createdAt]

ListedResponses(docs) == [i \in 1..Len(docs) |-> ListedResponse(docs[i])]

\* list_supervisors: 503, or the aggregate is run and its documents returned.
ListSupervisors(c) ==
    /\ Free(c)
    /\ started' = started + 1
    /\ clock' = clock + 1
    /\ \/ calls' = [calls EXCEPT ![c] =
             Raise(Accept("list_supervisors", Nothing), 503, "Database not available")]
       \/ \E area_city \in AreaCityFilters, active \in ActiveFilters,
             skip \in Skips, limit \in Limits :
             LET call == Accept("list_supervisors",
                                [supervisor_id |-> 0, area_city |-> area_city,
                                 active |-> active, skip |-> skip, limit |-> limit])
                 supervisors_found == PageStages(SupervisorsMatching(area_city, active),
                                                 skip, limit)
             IN  calls' = [calls EXCEPT ![c] =
                     [call EXCEPT !.pc = "done", !.status = 200,
                                  !.response = ListedResponses(supervisors_found)]]
    /\ UNCHANGED <<users, guards, supervisors, qr_locations, scan_events,
                   succeeded, event_owner, settings, config_requests>>

\* list_guards: 503, or the aggregate is run and its documents returned.
ListGuards(c) ==
    /\ Free(c)
    /\ started' = started + 1
    /\ clock' = clock + 1
    /\ \/ calls' = [calls EXCEPT ![c] =
             Raise(Accept("list_guards", Nothing), 503, "Database not available")]
       \/ \E supervisor_id \in SupervisorIdFilters, area_city \in AreaCityFilters,
             active \in ActiveFilters, skip \in Skips, limit \in Limits :
             LET call == Accept("list_guards",
                                [supervisor_id |-> supervisor_id, area_city |-> area_city,
                                 active |-> active, skip |-> skip, limit |-> limit])
                 guards_found == PageStages(GuardsMatching(supervisor_id, area_city, active),
                                            skip, limit)
             IN  calls' = [calls EXCEPT ![c] =
                     [call EXCEPT !.pc = "done", !.status = 200,
                                  !.response = ListedResponses(guards_found)]]
    /\ UNCHANGED <<users, guards, supervisors, qr_locations, scan_events,
                   succeeded, event_owner, settings, config_requests>>

----------------------------------------------------------------------------
\* GET /dashboard (guard_routes.get_guard_dashboard)

\* The length of a day in ticks of the clock, and the number of days of a
\* week: tick 0 is the midnight that begins a Monday.
DayLength == 1000

DaysOfWeek == 7

\* now.replace(hour=0, minute=0, second=0, microsecond=0)
StartOfDay(now) == (now \div DayLength) * DayLength

\* today_start - timedelta(days=today_start.weekday()), weekday() the days
\* since Monday.
StartOfWeek(today_start) ==
    LET weekday == (today_start \div DayLength) % DaysOfWeek
    IN  today_start - weekday * DayLength

\* The date of the sample requests of the patrol summary: none, the midnight
\* of tick 0 or the one after it.
NoDate == -1

DayStarts == {0, DayLength}

\* Floating point (IEEE 754 binary64, round to nearest, ties to even), as
\* Python's float: a positive float is [bits, exp], bits the 53 bits of its
\* significand from the most significant (a 1) down, its value
\* (bits read as a binary number) * 2^(exp - 52).
Precision == 53

RECURSIVE Pow2(_)
Pow2(k) ==
    IF k = 0 THEN 1
    ELSE LET half == Pow2(k \div 2)
         IN  IF k % 2 = 0 THEN half * half ELSE 2 * half * half

\* The last width binary digits of the natural number n, and all the digits
\* of a natural number below 2^30 (none for 0).
FixedBits(n, width) == [i \in 1..width |-> (n \div Pow2(width - i)) % 2]

BitsOf(n) ==
    FixedBits(n, CHOOSE width \in 0..30 :
                    /\ n < Pow2(width)
                    /\ width > 0 => n >= Pow2(width - 1))

\* The natural number with the binary digits bits.
RECURSIVE NumberOf(_)
NumberOf(bits) ==
    IF Len(bits) = 0 THEN 0
    ELSE IF Len(bits) = 1 THEN bits[1]
    ELSE LET half == Len(bits) \div 2
         IN  NumberOf(SubSeq(bits, 1, half)) * Pow2(Len(bits) - half)
             + NumberOf(SubSeq(bits, half + 1, Len(bits)))

\* The first n binary digits after the point of r / b, for r < b, and what
\* is left of r after them (long division, by halves of the digits).
RECURSIVE QuotientDigits(_, _, _)
QuotientDigits(r, b, n) ==
    IF n = 0 THEN [bits |-> << >>, rest |-> r]
    ELSE IF n = 1 THEN [bits |-> <<(2 * r) \div b>>, rest |-> (2 * r) % b]
    ELSE LET first == QuotientDigits(r, b, n \div 2)
         IN  IF first.rest = 0
             THEN [bits |-> first.bits \o [i \in 1..(n - n \div 2) |-> 0], rest |-> 0]
             ELSE LET second == QuotientDigits(first.rest, b, n - n \div 2)
                  IN  [bits |-> first.bits \o second.bits, rest |-> second.rest]

\* bits + 1, a digit longer when every digit of bits is 1.
Successor(bits) ==
    LET zeros == {i \in 1..Len(bits) : bits[i] = 0}
        last == IF zeros = {} THEN 0
                ELSE CHOOSE i \in zeros : \A j \in zeros : j <= i
    IN  SubSeq(bits, 1, last - 1) \o <<1>> \o [i \in 1..(Len(bits) - last) |-> 0]

\* bits * k + carry for a small natural number k: as many digits as bits has,
\* and what is carried out of them. Up to 20 digits are multiplied as one
\* integer, more of them by halves.
RECURSIVE TimesCarry(_, _, _)
TimesCarry(bits, k, carry) ==
    IF Len(bits) <= 20
    THEN LET product == NumberOf(bits) * k + carry
         IN  [bits |-> FixedBits(product, Len(bits)),
              carry |-> product \div Pow2(Len(bits))]
    ELSE LET half == Len(bits) \div 2
             low == TimesCarry(SubSeq(bits, half + 1, Len(bits)), k, carry)
             high == TimesCarry(SubSeq(bits, 1, half), k, low.carry)
         IN  [bits |-> high.bits \o low.bits, carry |-> high.carry]

TimesSmall(bits, k, carry) ==
    LET product == TimesCarry(bits, k, carry)
    IN  BitsOf(product.carry) \o product.bits

\* Whether to round up what is cut off after the digit last: more than half
\* of a unit of last, or exactly half of it and last odd.
RoundsUp(last, rest) ==
    /\ rest # << >>
    /\ rest[1] = 1
    /\ \/ last = 1
       \/ \E i \in 2..Len(rest) : rest[i] = 1

\* The float nearest to (bits followed by rest, read as a binary number with
\* Precision digits before the point) * 2^(exp - 52); sticky tells that
\* nonzero digits follow rest.
RoundToFloat(bits, rest, sticky, exp) ==
    LET up == RoundsUp(bits[Precision], IF sticky THEN rest \o <<1>> ELSE rest)
        rounded == IF up THEN Successor(bits) ELSE bits
    IN  IF Len(rounded) > Precision
        THEN [bits |-> SubSeq(rounded, 1, Precision), exp |-> exp + 1]
        ELSE [bits |-> rounded, exp |-> exp]

\* The exponent of a / b for positive integers a and b: the k with
\* 2^k <= a / b < 2^(k+1).
RECURSIVE Exponent(_, _)
Exponent(a, b) ==
    IF 2 * b <= a THEN Exponent(a, 2 * b) + 1
    ELSE IF a < b THEN Exponent(2 * a, b) - 1
    ELSE 0

\* count / total, both positive integers: the float nearest to the quotient.
FloatDivide(count, total) ==
    LET exp == Exponent(count, total)
        a == IF exp < 0 THEN count * Pow2(0 - exp) ELSE count
        b == IF exp > 0 THEN total * Pow2(exp) ELSE total
        digits == QuotientDigits(a - b, b, Precision - 1)
    IN  RoundToFloat(<<1>> \o digits.bits, <<(2 * digits.rest) \div b>>,
                     (2 * digits.rest) % b # 0, exp)

\* x * k for a float x and a small positive integer k: the float nearest to
\* the product.
FloatTimes(x, k) ==
    LET product == TimesSmall(x.bits, k, 0)
    IN  RoundToFloat(SubSeq(product, 1, Precision),
                     SubSeq(product, Precision + 1, Len(product)), FALSE,
                     x.exp + Len(product) - Precision)

\* round(x, 1) in tenths, for a float x below 2^52: the exact value of x
\* times ten, rounded to the nearest integer, ties to even.
FloatRound1(x) ==
    LET product == TimesSmall(x.bits, 10, 0)
        fraction == Precision - 1 - x.exp
        digits == IF Len(product) > fraction THEN product
                  ELSE [i \in 1..(fraction + 1) |->
                           IF i <= fraction + 1 - Len(product) THEN 0
                           ELSE product[i - (fraction + 1 - Len(product))]]
        whole == SubSeq(digits, 1, Len(digits) - fraction)
        rest == SubSeq(digits, Len(digits) - fraction + 1, Len(digits))
    IN  NumberOf(whole) + (IF RoundsUp(whole[Len(whole)], rest) THEN 1 ELSE 0)

\* Whether count / total * 100 lies halfway between two tenths of a percent.
HalfwayBetweenTenths(count, total) == (count * 2000) % (2 * total) = total

\* round(count / total * 100, 1) if total > 0 else 0, in tenths of a percent.
\* The quotient and the product are floats. Halfway between two tenths their
\* rounding errors decide which tenth round() gives (23 / 80 * 100 is
\* 28.749999999999996, hence 28.7). Anywhere else the exact value is at least
\* 1 / (2 * total) tenths away from halfway and the float less than
\* count / total * 2^-41 tenths away from the exact value, so that round()
\* gives the tenth nearest to the exact value.
Percentage(count, total) ==
    IF total > 0 /\ count > 0
    THEN IF HalfwayBetweenTenths(count, total)
         THEN FloatRound1(FloatTimes(FloatDivide(count, total), 100))
         ELSE RoundHalfEven(count * 1000, total)
    ELSE 0

\* count_documents({"guardId": guard_id, "scannedAt": {"$gte": since}})
CountScansSince(guard_id, since) ==
    Cardinality({i \in 1..Len(scan_events) :
                    scan_events[i].guardId = guard_id /\ scan_events[i].scannedAt >= since})

\* count_documents({"guardId": guard_id})
CountScans(guard_id) ==
    Cardinality({i \in 1..Len(scan_events) : scan_events[i].guardId = guard_id})

\* count_documents({"guardId": guard_id, "isWithinRadius": True})
CountScansWithinRadius(guard_id) ==
    Cardinality({i \in 1..Len(scan_events) :
                    scan_events[i].guardId = guard_id /\ scan_events[i].isWithinRadius})

\* count_documents({"supervisorId": supervisor_id, "isActive": True})
CountActiveLocations(supervisor_id) ==
    Cardinality({i \in 1..Len(qr_locations) :
                    qr_locations[i].supervisorId = supervisor_id /\ qr_locations[i].isActive})

\* sort("scannedAt", 1): oldest first, equal times in the order given.
RECURSIVE OldestFirst(_)
OldestFirst(docs) ==
    IF docs = << >> THEN << >>
    ELSE LET doc == Head(docs)
             rest == OldestFirst(Tail(docs))
             older == Cardinality({i \in 1..Len(rest) : rest[i].scannedAt < doc.scannedAt})
         IN  SubSeq(rest, 1, older) \o << doc >> \o SubSeq(rest, older + 1, Len(rest))

\* sort("scannedAt", -1): newest first, equal times in the order given.
RECURSIVE NewestFirst(_)
NewestFirst(docs) ==
    IF docs = << >> THEN << >>
    ELSE LET doc == Head(docs)
             rest == NewestFirst(Tail(docs))
             newer == Cardinality({i \in 1..Len(rest) : rest[i].scannedAt > doc.scannedAt})
         IN  SubSeq(rest, 1, newer) \o << doc >> \o SubSeq(rest, newer + 1, Len(rest))

\* An entry of the dashboard's recent_scans: the event's id, no qr_id.
RecentScanEntry(scan) ==
    [id |-> scan._id, location_name |-> scan.locationName,
     scanned_at |-> scan.scannedAt, is_within_radius |-> scan.isWithinRadius,
     distance_from_qr |-> scan.distanceFromQR]

RecentScanEntries(scans) == [i \in 1..Len(scans) |-> RecentScanEntry(scans[i])]

\* An entry of the patrol summary's scans: the qr_id, no event id.
ScanEntry(scan) ==
    [qr_id |-> scan.qrId, location_name |-> scan.locationName,
     scanned_at |-> scan.scannedAt, is_within_radius |-> scan.isWithinRadius,
     distance_from_qr |-> scan.distanceFromQR]

ScanEntries(scans) == [i \in 1..Len(scans) |-> ScanEntry(scans[i])]

\* The request arrives: 503, or the midnight before the arrival is taken as
\* today_start and the count of today's scans is awaited.
DashboardBegin(c) ==
    /\ Free(c)
    /\ started' = started + 1
    /\ clock' = clock + 1
    /\ \/ calls' = [calls EXCEPT ![c] =
             Raise(Accept("get_guard_dashboard", Nothing), 503, "Database not available")]
       \/ \E g \in 1..Len(guards) :
             LET current_guard == CurrentGuard(guards[g])
                 call == Accept("get_guard_dashboard",
                                [guardEmail |-> current_guard.email])
                 today_start == StartOfDay(clock')
             IN  calls' = [calls EXCEPT ![c] =
                     [call EXCEPT
                         !.pc = "count_today",
                         !.frame = [guard_id |-> current_guard.guard_id,
                                    supervisor_id |-> current_guard.supervisor_id,
                                    today_start |-> today_start,
                                    today_scans |-> 0,
                                    this_week_scans |-> 0, total_scans |-> 0,
                                    within_radius_percentage |-> 0,
                                    recent_scans |-> << >>,
                                    available_qr_locations |-> 0]]]
    /\ UNCHANGED <<users, guards, supervisors, qr_locations, scan_events,
                   succeeded, event_owner, settings, config_requests>>

\* The scans since today_start are counted.
DashboardCountToday(c) ==
    /\ calls[c].op = "get_guard_dashboard"
    /\ calls[c].pc = "count_today"
    /\ calls' = [calls EXCEPT ![c] =
           [calls[c] EXCEPT
               !.pc = "count_week",
               !.frame = [@ EXCEPT !.today_scans =
                              CountScansSince(calls[c].frame.guard_id,
                                              calls[c].frame.today_start)]]]
    /\ UNCHANGED <<users, guards, supervisors, qr_locations, scan_events,
                   clock, started, succeeded, event_owner, settings, config_requests>>

\* The scans since the Monday of the week of today_start are counted.
DashboardCountWeek(c) ==
    /\ calls[c].op = "get_guard_dashboard"
    /\ calls[c].pc = "count_week"
    /\ LET week_start == StartOfWeek(calls[c].frame.today_start)
       IN  calls' = [calls EXCEPT ![c] =
               [calls[c] EXCEPT
                   !.pc = "count_total",
                   !.frame = [@ EXCEPT !.this_week_scans =
                                  CountScansSince(calls[c].frame.guard_id, week_start)]]]
    /\ UNCHANGED <<users, guards, supervisors, qr_locations, scan_events,
                   clock, started, succeeded, event_owner, settings, config_requests>>

\* The guard's scans are counted.
DashboardCountTotal(c) ==
    /\ calls[c].op = "get_guard_dashboard"
    /\ calls[c].pc = "count_total"
    /\ calls' = [calls EXCEPT ![c] =
           [calls[c] EXCEPT !.pc = "count_within_radius",
                            !.frame = [@ EXCEPT !.total_scans = CountScans(calls[c].frame.guard_id)]]]
    /\ UNCHANGED <<users, guards, supervisors, qr_locations, scan_events,
                   clock, started, succeeded, event_owner, settings, config_requests>>

\* The guard's scans within the radius are counted, and the percentage of the
\* total counted before is computed.
DashboardCountWithinRadius(c) ==
    /\ calls[c].op = "get_guard_dashboard"
    /\ calls[c].pc = "count_within_radius"
    /\ calls' = [calls EXCEPT ![c] =
           [calls[c] EXCEPT !.pc = "find_recent",
                            !.frame = [@ EXCEPT !.within_radius_percentage =
                    Percentage(CountScansWithinRadius(calls[c].frame.guard_id),
                               calls[c].frame.total_scans)]]]
    /\ UNCHANGED <<users, guards, supervisors, qr_locations, scan_events,
                   clock, started, succeeded, event_owner, settings, config_requests>>

\* find({"guardId": guard_id}).sort("scannedAt", -1).limit(10)
DashboardFindRecent(c) ==
    /\ calls[c].op = "get_guard_dashboard"
    /\ calls[c].pc = "find_recent"
    /\ calls' = [calls EXCEPT ![c] =
           [calls[c] EXCEPT !.pc = "count_locations",
                            !.frame = [@ EXCEPT !.recent_scans =
                    RecentScanEntries(LimitStage(NewestFirst(
                        SelectSeq(scan_events,
                                  LAMBDA e : e.guardId = calls[c].frame.guard_id)), 10))]]]
    /\ UNCHANGED <<users, guards, supervisors, qr_locations, scan_events,
                   clock, started, succeeded, event_owner, settings, config_requests>>

\* The active QR locations of the guard's group are counted.
DashboardCountLocations(c) ==
    /\ calls[c].op = "get_guard_dashboard"
    /\ calls[c].pc = "count_locations"
    /\ calls' = [calls EXCEPT ![c] =
           [calls[c] EXCEPT !.pc = "find_last",
                            !.frame = [@ EXCEPT !.available_qr_locations =
                    CountActiveLocations(calls[c].frame.supervisor_id)]]]
    /\ UNCHANGED <<users, guards, supervisors, qr_locations, scan_events,
                   clock, started, succeeded, event_owner, settings, config_requests>>

\* find_one(sort=[("scannedAt", -1)]) returns and the dashboard is answered.
DashboardFindLast(c) ==
    /\ calls[c].op = "get_guard_dashboard"
    /\ calls[c].pc = "find_last"
    /\ LET call == calls[c]
           mine == NewestFirst(SelectSeq(scan_events,
                                         LAMBDA e : e.guardId = call.frame.guard_id))
       IN  calls' = [calls EXCEPT ![c] =
               [call EXCEPT
                   !.pc = "done", !.status = 200, !.frame = Nothing,
                   !.response =
                       [today_scans |-> call.frame.today_scans,
                        this_week_scans |-> call.frame.this_week_scans,
                        total_scans |-> call.frame.total_scans,
                        within_radius_percentage |-> call.frame.within_radius_percentage,
                        available_qr_locations |-> call.frame.available_qr_locations,
                        recent_scans |-> call.frame.recent_scans,
                        last_scan_time |-> IF mine = << >> THEN -1
                                           ELSE mine[1].scannedAt]]]
    /\ UNCHANGED <<users, guards, supervisors, qr_locations, scan_events,
                   clock, started, succeeded, event_owner, settings, config_requests>>

----------------------------------------------------------------------------
\* GET /patrol-summary (guard_routes.get_patrol_summary)

\* The request arrives: 503, or the day of the date given, the day of the
\* arrival when none is, is taken and the find of its scans is awaited.
PatrolBegin(c) ==
    /\ Free(c)
    /\ started' = started + 1
    /\ clock' = clock + 1
    /\ \/ calls' = [calls EXCEPT ![c] =
             Raise(Accept("get_patrol_summary", Nothing), 503, "Database not available")]
       \/ \E g \in 1..Len(guards), date \in DayStarts \cup {NoDate} :
             LET current_guard == CurrentGuard(guards[g])
                 call == Accept("get_patrol_summary",
                                [guardEmail |-> current_guard.email, date |-> date])
                 target_date == IF date # NoDate THEN date ELSE clock'
                 day_start == StartOfDay(target_date)
                 day_end == day_start + DayLength
             IN  calls' = [calls EXCEPT ![c] =
                     [call EXCEPT
                         !.pc = "find_day_scans",
                         !.frame = [guard_id |-> current_guard.guard_id,
                                    supervisor_id |-> current_guard.supervisor_id,
                                    day_start |-> day_start,
                                    day_end |-> day_end,
                                    day_scans |-> << >>]]]
    /\ UNCHANGED <<users, guards, supervisors, qr_locations, scan_events,
                   succeeded, event_owner, settings, config_requests>>

\* find({"guardId": guard_id, "scannedAt": {"$gte": day_start, "$lt": day_end}})
\* .sort("scannedAt", 1): the guard's scans of the day are found, oldest first.
PatrolFindDayScans(c) ==
    /\ calls[c].op = "get_patrol_summary"
    /\ calls[c].pc = "find_day_scans"
    /\ LET frame == calls[c].frame
           day_scans == OldestFirst(SelectSeq(scan_events,
                            LAMBDA e : /\ e.guardId = frame.guard_id
                                       /\ e.scannedAt >= frame.day_start
                                       /\ e.scannedAt < frame.day_end))
       IN  calls' = [calls EXCEPT ![c] =
               [calls[c] EXCEPT !.pc = "count_locations",
                                !.frame = [@ EXCEPT !.day_scans = day_scans]]]
    /\ UNCHANGED <<users, guards, supervisors, qr_locations, scan_events,
                   clock, started, succeeded, event_owner, settings, config_requests>>

\* The summary of the day's scans against the number of active locations.
PatrolSummary(day_scans, total_locations) ==
    LET scanned_qr_ids == {day_scans[i].qrId : i \in 1..Len(day_scans)}
        unique_locations_scanned == Cardinality(scanned_qr_ids)
        within_radius_scans == Cardinality({i \in 1..Len(day_scans) :
                                               day_scans[i].isWithinRadius})
    IN  [total_scans |-> Len(day_scans),
         unique_locations_scanned |-> unique_locations_scanned,
         total_available_locations |-> total_locations,
         coverage_percentage |-> Percentage(unique_locations_scanned, total_locations),
         within_radius_percentage |-> Percentage(within_radius_scans, Len(day_scans)),
         first_scan_time |-> IF day_scans = << >> THEN -1 ELSE day_scans[1].scannedAt,
         last_scan_time |-> IF day_scans = << >> THEN -1
                            ELSE day_scans[Len(day_scans)].scannedAt,
         scans |-> ScanEntries(day_scans)]

\* The active QR locations of the guard's group are counted and the summary
\* is answered.
PatrolCountLocations(c) ==
    /\ calls[c].op = "get_patrol_summary"
    /\ calls[c].pc = "count_locations"
    /\ LET call == calls[c]
           total_locations == CountActiveLocations(call.frame.supervisor_id)
       IN  calls' = [calls EXCEPT ![c] =
               [call EXCEPT !.pc = "done", !.status = 200, !.frame = Nothing,
                            !.response = PatrolSummary(call.frame.day_scans,
                                                       total_locations)]]
    /\ UNCHANGED <<users, guards, supervisors, qr_locations, scan_events,
                   clock, started, succeeded, event_owner, settings, config_requests>>

\* Deactivation of a QR location: only its active flag is flipped.
DeactivateLocation ==
    \E i \in 1..Len(qr_locations) :
        /\ qr_locations[i].isActive
        /\ qr_locations' = [qr_locations EXCEPT ![i].isActive = FALSE]
        /\ UNCHANGED <<users, guards, supervisors, scan_events, clock, calls,
                       started, succeeded, event_owner, settings, config_requests>>

----------------------------------------------------------------------------
Init ==
    /\ settings = InitSettings
    /\ config_requests = 0
    /\ users = InitUsers
    /\ guards = InitGuards
    /\ supervisors = InitSupervisors
    /\ qr_locations = InitQrLocations
    /\ scan_events = <<>>
    /\ clock = 0
    /\ calls = [c \in Calls |-> Idle]
    /\ started = 0
    /\ succeeded = 0
    /\ event_owner = <<>>

\* The scan endpoints, served concurrently.
Next ==
    \E c \in Calls :
        \/ ScanBegin(c)
        \/ ScanGeocode(c)
        \/ ScanInsertEvent(c)
        \/ ScanFindSupervisor(c)
        \/ ScanAppendSheet(c)
        \/ PublicBegin(c)
        \/ PublicFindGuard(c)
        \/ PublicFindLocation(c)
        \/ PublicGeocode(c)
        \/ PublicInsertEvent(c)
        \/ PublicFindSupervisor(c)
        \/ PublicAppendSheet(c)

Spec == Init /\ [][Next]_vars

\* No request is being served.
Quiet == \A c \in Calls : AtRest(calls[c])

\* The arrivals of a server that takes the next request when it has answered
\* the one before.
SerialScanBegin(c) == Quiet /\ ScanBegin(c)

SerialPublicBegin(c) == Quiet /\ PublicBegin(c)

SerialDisableBegin(c) == Quiet /\ DisableBegin(c)

SerialCreateSupervisorBegin(c) == Quiet /\ CreateSupervisorBegin(c)

SerialCreateGuardBegin(c) == Quiet /\ CreateGuardBegin(c)

SerialUpdateSystemConfig(c) == Quiet /\ UpdateSystemConfig(c)

SerialReadOnly(c) == Quiet /\ ReadOnly(c)

SerialListSupervisors(c) == Quiet /\ ListSupervisors(c)

SerialListGuards(c) == Quiet /\ ListGuards(c)

SerialDashboardBegin(c) == Quiet /\ DashboardBegin(c)

SerialPatrolBegin(c) == Quiet /\ PatrolBegin(c)

SerialValidateQrCode(c) == Quiet /\ ValidateQrCode(c)

\* Every endpoint of the three routers, one request after the other.
NextAll ==
    \E c \in Calls :
        \/ SerialScanBegin(c)
        \/ ScanGeocode(c)
        \/ ScanInsertEvent(c)
        \/ ScanFindSupervisor(c)
        \/ ScanAppendSheet(c)
        \/ SerialPublicBegin(c)
        \/ PublicFindGuard(c)
        \/ PublicFindLocation(c)
        \/ PublicGeocode(c)
        \/ PublicInsertEvent(c)
        \/ PublicFindSupervisor(c)
        \/ PublicAppendSheet(c)
        \/ SerialDisableBegin(c)
        \/ DisableUpdate(c)
        \/ SerialCreateSupervisorBegin(c)
        \/ CreateSupervisorInsertUser(c)
        \/ CreateSupervisorInsertSupervisor(c)
        \/ CreateSupervisorReadSupervisor(c)
        \/ CreateSupervisorReadUser(c)
        \/ SerialCreateGuardBegin(c)
        \/ CreateGuardFindSupervisor(c)
        \/ CreateGuardInsertUser(c)
        \/ CreateGuardInsertGuard(c)
        \/ CreateGuardPushGuard(c)
        \/ CreateGuardReadGuard(c)
        \/ CreateGuardReadUser(c)
        \/ SerialUpdateSystemConfig(c)
        \/ SerialReadOnly(c)
        \/ SerialListSupervisors(c)
        \/ SerialListGuards(c)
        \/ SerialDashboardBegin(c)
        \/ DashboardCountToday(c)
        \/ DashboardCountWeek(c)
        \/ DashboardCountTotal(c)
        \/ DashboardCountWithinRadius(c)
        \/ DashboardFindRecent(c)
        \/ DashboardCountLocations(c)
        \/ DashboardFindLast(c)
        \/ SerialPatrolBegin(c)
        \/ PatrolFindDayScans(c)
        \/ PatrolCountLocations(c)
        \/ SerialValidateQrCode(c)

SpecAll == Init /\ [][NextAll]_vars

\* The two account-creating endpoints, served concurrently: a second request
\* may arrive while the first is suspended at one of its awaits.
NextCreate ==
    \E c \in Calls :
        \/ CreateSupervisorBegin(c)
        \/ CreateSupervisorInsertUser(c)
        \/ CreateSupervisorInsertSupervisor(c)
        \/ CreateSupervisorReadSupervisor(c)
        \/ CreateSupervisorReadUser(c)
        \/ CreateGuardBegin(c)
        \/ CreateGuardFindSupervisor(c)
        \/ CreateGuardInsertUser(c)
        \/ CreateGuardInsertGuard(c)
        \/ CreateGuardPushGuard(c)
        \/ CreateGuardReadGuard(c)
        \/ CreateGuardReadUser(c)

SpecCreate == Init /\ [][NextCreate]_vars

\* The number of scans a guard has made earlier.
MaxHistory == 2

\* An earlier scan: a location of the guard's group and the
\* position reported, at the location or just beyond the radius.
HistoryScans ==
    {[location |-> i, coordinates |-> [latitude |-> l, longitude |-> 0]] :
        i \in {i \in 1..Len(InitQrLocations) :
                  InitQrLocations[i].supervisorId = InitGuards[1].supervisorId},
        l \in {0, WITHIN_RADIUS_METERS * UnitsPerMeter + 1}}

\* The QR locations at the time of the earlier scans: all of them active.
HistoryQrLocations ==
    [i \in 1..Len(InitQrLocations) |-> [InitQrLocations[i] EXCEPT !.isActive = TRUE]]

\* The Scan Event that scan_qr_code stored for an earlier scan of the guard.
HistoryEvent(id, scan) ==
    LET guard == InitGuards[1]
        guard_user == InitUsers[guard.userId]
        frame == LocatedFrame(guard._id, guard.supervisorId, guard_user,
                              scan.coordinates, HistoryQrLocations[scan.location])
        req == [qrId |-> HistoryQrLocations[scan.location].qrId,
                coordinates |-> scan.coordinates, notes |-> ""]
    IN  [ScanEventDoc(req, frame, "", 0) EXCEPT !._id = id]

\* The time since the guard's earlier scans when the requests below begin to
\* arrive: none, a day (the Tuesday of the same week), a week (the next Monday).
HistoryClocks == {0, DayLength, DaysOfWeek * DayLength}

\* The store after the guard's earlier scans, made at tick 0, before any of
\* the requests below arrives.
InitHistory ==
    /\ settings = InitSettings
    /\ config_requests = 0
    /\ users = InitUsers
    /\ guards = InitGuards
    /\ supervisors = InitSupervisors
    /\ qr_locations = HistoryQrLocations
    /\ \E n \in 0..MaxHistory : \E history \in [1..n -> HistoryScans] :
          /\ scan_events = [i \in 1..n |-> HistoryEvent(i, history[i])]
          /\ event_owner = [i \in 1..n |-> 0]
    /\ clock \in HistoryClocks
    /\ calls = [c \in Calls |-> Idle]
    /\ started = 0
    /\ succeeded = 0

\* The guard's dashboard, served while the guard scans.
NextDashboard ==
    \E c \in Calls :
        \/ ScanBegin(c)
        \/ ScanGeocode(c)
        \/ ScanInsertEvent(c)
        \/ ScanFindSupervisor(c)
        \/ ScanAppendSheet(c)
        \/ DashboardBegin(c)
        \/ DashboardCountToday(c)
        \/ DashboardCountWeek(c)
        \/ DashboardCountTotal(c)
        \/ DashboardCountWithinRadius(c)
        \/ DashboardFindRecent(c)
        \/ DashboardCountLocations(c)
        \/ DashboardFindLast(c)

SpecDashboard == InitHistory /\ [][NextDashboard]_vars

\* The guard's patrol summary, served while locations are deactivated.
NextPatrol ==
    \/ \E c \in Calls :
          \/ PatrolBegin(c)
          \/ PatrolFindDayScans(c)
          \/ PatrolCountLocations(c)
    \/ DeactivateLocation

SpecPatrol == InitHistory /\ [][NextPatrol]_vars

\* The number of requests in a behaviour of the account life cycle below.
MaxAccountCalls == 4

\* Arrivals of the account life cycle: guards are created concurrently; a
\* disable_user or a public scan arrives when no request is being served.
AccountsCreateGuardBegin(c) == started < MaxAccountCalls /\ CreateGuardArrives(c)

AccountsDisableBegin(c) == started < MaxAccountCalls /\ Quiet /\ DisableArrives(c)

AccountsPublicBegin(c) == started < MaxAccountCalls /\ Quiet /\ PublicArrives(c)

\* The life cycle of a guard's account: created, disabled, used in public scans.
NextAccounts ==
    \E c \in Calls :
        \/ AccountsCreateGuardBegin(c)
        \/ CreateGuardFindSupervisor(c)
        \/ CreateGuardInsertUser(c)
        \/ CreateGuardInsertGuard(c)
        \/ CreateGuardPushGuard(c)
        \/ CreateGuardReadGuard(c)
        \/ CreateGuardReadUser(c)
        \/ AccountsDisableBegin(c)
        \/ DisableUpdate(c)
        \/ AccountsPublicBegin(c)
        \/ PublicFindGuard(c)
        \/ PublicFindLocation(c)
        \/ PublicGeocode(c)
        \/ PublicInsertEvent(c)
        \/ PublicFindSupervisor(c)
        \/ PublicAppendSheet(c)

SpecAccounts == Init /\ [][NextAccounts]_vars

----------------------------------------------------------------------------
\* Properties of the scan handlers

ScanOps == {"scan_qr_code", "public_scan_qr_code"}

\* The guard a scan request acts for: the active GUARD user of that email and
\* its guard profile.
ActorGuard(req) ==
    LET user == FindOne(users, LAMBDA u : /\ u.email = req.guardEmail
                                          /\ u.role = "GUARD"
                                          /\ u.isActive)
    IN  IF user = NoDoc THEN NoDoc
        ELSE FindOne(guards, LAMBDA g : g.userId = user._id)

\* The handler has looked the QR code up.
LookedUp(call) == call.op \in ScanOps /\ HasRead(call.req, "qrId")

\* The QR locations a request's qr_id resolves to: active, of that qrId, in the
\* owning group of the actor.
ResolvedLocations(req) ==
    LET guard == ActorGuard(req)
    IN  IF guard = NoDoc THEN {}
        ELSE {i \in 1..Len(qr_locations) :
                 /\ qr_locations[i].qrId = req.qrId
                 /\ qr_locations[i].isActive
                 /\ qr_locations[i].supervisorId = guard.supervisorId}

Resolves(call) == LookedUp(call) /\ ResolvedLocations(call.req) # {}

\* The Scan Events a call has inserted.
OwnEvents(call) == {i \in 1..Len(scan_events) : event_owner[i] = call.serial}

\* The full-precision distance between a request's coordinates and the
\* location its qr_id resolves to.
TrueDistance(req) ==
    LET i == CHOOSE j \in ResolvedLocations(req) : TRUE
    IN  Abs(req.coordinates.latitude - qr_locations[i].coordinates.latitude)

Finished(call) == call.pc = "done"

\* The call was answered 200 with a verdict (success = true where the verdict
\* has the field).
SuccessVerdict(call) ==
    /\ call.status = 200
    /\ call.response # Nothing
    /\ HasRead(call.response, "success") => call.response.success

\* C1: a scan call whose qr_id resolves to an active QR Location of the actor's
\* owning group, once it has returned, has returned the success verdict (200,
\* success = true) and has put exactly one Scan Event in the store, the one whose
\* id the verdict carries, whatever the distance, the geocoding outcome and the
\* spreadsheet outcome.  The store is working: the collections are available and
\* insert_one is accepted (the rejected insert is C5's case).
C1_ResolvedScanSucceedsOnce ==
    \A c \in Calls :
        LET call == calls[c]
        IN  (Finished(call) /\ Resolves(call) /\ call.insert # "rejected")
            => /\ SuccessVerdict(call)
               /\ OwnEvents(call) = {call.response.scanEventId}
               /\ scan_events[call.response.scanEventId]._id = call.response.scanEventId

\* Two resolved scans have returned, one beyond the radius with the geocoding
\* call failed, one with the spreadsheet write failed, each with its own event.
C1_Witness ==
    /\ \A c \in Calls : Finished(calls[c]) /\ Resolves(calls[c]) /\ calls[c].status = 200
    /\ \E c \in Calls : ~calls[c].response.isWithinRadius /\ calls[c].geocode = "nothing"
    /\ \E c \in Calls : calls[c].mirror = "failed"
    /\ Len(scan_events) = 2

\* C2: a scan call whose qr_id does not exist, or exists only inactive, or only
\* under another owning group than the actor's, ends at the lookup with 404, has
\* no Scan Event in the store, and has called neither the geocoding provider nor
\* insert_one nor the spreadsheet logger.
C2_UnresolvedScanNotFound ==
    \A c \in Calls :
        LET call == calls[c]
        IN  (LookedUp(call) /\ ~Resolves(call))
            => /\ Finished(call)
               /\ call.status = 404
               /\ call.detail = "QR code not found or inactive"
               /\ call.response = Nothing
               /\ OwnEvents(call) = {}
               /\ call.geocode = "not_called"
               /\ call.insert = "not_called"
               /\ call.mirror = "not_called"

\* One scan of an inactive QR code and one of another group's, both answered 404,
\* the store empty.
C2_Witness ==
    /\ \E c \in Calls : /\ LookedUp(calls[c]) /\ calls[c].req.qrId = "QR-OLD"
                        /\ calls[c].status = 404
    /\ \E c \in Calls : /\ LookedUp(calls[c]) /\ calls[c].req.qrId = "QR-OTHER"
                        /\ calls[c].status = 404
    /\ scan_events = <<>>

\* C3: within_radius, in the verdict and in the persisted event, is true exactly
\* when the unrounded distance is at most the threshold; the distance stored and
\* returned is the distance rounded to two decimals.
C3_WithinRadiusUsesUnroundedDistance ==
    /\ \A c \in Calls :
          LET call == calls[c]
          IN  (Finished(call) /\ call.status = 200 /\ call.op \in ScanOps)
              => /\ call.response.isWithinRadius
                     <=> (TrueDistance(call.req) <= WITHIN_RADIUS_METERS * UnitsPerMeter)
                 /\ call.response.distanceFromQR = Round2(TrueDistance(call.req))
    /\ \A i \in 1..Len(scan_events) :
          LET e == scan_events[i]
              location == FindOne(qr_locations, LAMBDA d : d._id = e.qrLocationId)
              distance == Abs(e.coordinates.latitude - location.coordinates.latitude)
          IN  /\ e.isWithinRadius <=> (distance <= WITHIN_RADIUS_METERS * UnitsPerMeter)
              /\ e.distanceFromQR = Round2(distance)

\* A scan just beyond the threshold whose distance rounds down to the threshold
\* (50.00 m) is stored and answered as not within radius, and a scan exactly at
\* the threshold as within radius.
C3_Witness ==
    /\ \E c \in Calls : /\ Finished(calls[c]) /\ calls[c].status = 200
                        /\ TrueDistance(calls[c].req) > WITHIN_RADIUS_METERS * UnitsPerMeter
                        /\ calls[c].response.distanceFromQR = WITHIN_RADIUS_METERS * 100
                        /\ ~calls[c].response.isWithinRadius
    /\ \E i \in 1..Len(scan_events) : /\ scan_events[i].distanceFromQR = WITHIN_RADIUS_METERS * 100
                                      /\ ~scan_events[i].isWithinRadius
    /\ \E i \in 1..Len(scan_events) : /\ scan_events[i].distanceFromQR = WITHIN_RADIUS_METERS * 100
                                      /\ scan_events[i].isWithinRadius

\* C4: a resolved scan beyond the threshold is not rejected: once returned (the
\* store working) it has the success verdict and its event is in the store with
\* within_radius = false; and a scan answered with a 4xx status is one whose QR
\* code or guard did not resolve.
C4_BeyondRadiusNeverRejected ==
    \A c \in Calls :
        LET call == calls[c]
        IN  /\ ( /\ Finished(call) /\ Resolves(call) /\ call.insert # "rejected"
                 /\ TrueDistance(call.req) > WITHIN_RADIUS_METERS * UnitsPerMeter )
               => /\ SuccessVerdict(call)
                  /\ ~call.response.isWithinRadius
                  /\ \E i \in OwnEvents(call) : ~scan_events[i].isWithinRadius
            /\ ( /\ Finished(call) /\ call.op \in ScanOps
                 /\ call.status \in 400..499 )
               => ~Resolves(call)

\* A scan beyond the threshold has returned the success verdict with the warning
\* message, its event persisted.
C4_Witness ==
    \E c \in Calls :
        /\ Finished(calls[c]) /\ calls[c].status = 200
        /\ calls[c].response.message.text = "Warning: You are {}m away from the QR location"
        /\ \E i \in OwnEvents(calls[c]) : ~scan_events[i].isWithinRadius

\* C5: a scan whose insert_one fails ends in an error, never the success
\* verdict; no Scan Event of that call is in the store and nothing was sent to
\* the spreadsheet logger for it.
C5_InsertFailureIsError ==
    \A c \in Calls :
        LET call == calls[c]
        IN  call.insert = "rejected"
            => /\ Finished(call)
               /\ call.status = 500
               /\ call.response = Nothing
               /\ OwnEvents(call) = {}
               /\ call.mirror = "not_called"

\* A scan's insert has failed while another scan's event is in the store.
C5_Witness ==
    /\ \E c \in Calls : calls[c].insert = "rejected" /\ calls[c].status = 500
    /\ Len(scan_events) = 1
\* C6: Scan Events are immutable and the store is append-only: no step of any
\* endpoint of the guard, QR and admin routers removes a persisted Scan Event or
\* changes a field of one.
C6_ScanEventsAppendOnly ==
    [][/\ Len(scan_events') >= Len(scan_events)
       /\ \A i \in 1..Len(scan_events) : scan_events'[i] = scan_events[i]]_vars

\* A Scan Event is in the store and, after it was written, an administrator's
\* call has changed the users collection.
C6_Witness ==
    /\ Len(scan_events) >= 1
    /\ \E i \in 1..Len(users) : users[i].updatedAt > scan_events[1].scannedAt

\* C7: when the geocoding provider raises, times out or returns no result, the
\* handler goes on with the empty address; once the scan has returned (the store
\* working) it has the success verdict with address "" and exactly one Scan
\* Event of its own, persisted with address "".
C7_GeocodeFailureGivesEmptyAddress ==
    \A c \in Calls :
        LET call == calls[c]
        IN  call.geocode = "nothing"
            => /\ call.frame # Nothing => call.frame.current_address = ""
               /\ \A i \in OwnEvents(call) : scan_events[i].address = ""
               /\ (Finished(call) /\ call.insert # "rejected")
                  => /\ SuccessVerdict(call)
                     /\ call.response.address = ""
                     /\ OwnEvents(call) = {call.response.scanEventId}

\* A scan whose geocoding call failed has returned the success verdict, its event
\* stored with the empty address, next to a scan that was given an address.
C7_Witness ==
    /\ \E c \in Calls : /\ calls[c].geocode = "nothing" /\ Finished(calls[c])
                        /\ calls[c].status = 200 /\ calls[c].response.address = ""
                        /\ scan_events[calls[c].response.scanEventId].address = ""
    /\ \E c \in Calls : /\ calls[c].geocode = "address" /\ Finished(calls[c])
                        /\ calls[c].status = 200 /\ calls[c].response.address # ""

\* C8: whatever the outcome of the supervisor lookup and of the spreadsheet write
\* (returned or raised), the step that ends the scan leaves the store as it is and
\* returns the success verdict computed before the logging began, the one a
\* working logger gives.
C8_SheetFailureKeepsOutcome ==
    [][\A c \in Calls :
          (calls[c].pc \in {"find_supervisor", "append_sheet"} /\ calls'[c].pc = "done")
          => /\ calls'[c].status = 200
             /\ calls'[c].response = ScanResponse(calls[c])
             /\ scan_events' = scan_events]_vars

\* One scan has returned after its spreadsheet write failed, another after its
\* write was done; both have the success verdict.
C8_Witness ==
    /\ \E c \in Calls : /\ Finished(calls[c]) /\ calls[c].mirror = "failed"
                        /\ SuccessVerdict(calls[c])
    /\ \E c \in Calls : /\ Finished(calls[c]) /\ calls[c].mirror = "ok"
                        /\ calls[c].status = 200
    /\ Len(scan_events) = 2

\* The event loop runs every handler that can take a step; the spreadsheet
\* service is outside the program and nothing makes its write return.
Fairness ==
    \A c \in Calls :
        /\ WF_vars(ScanGeocode(c))
        /\ WF_vars(ScanInsertEvent(c))
        /\ WF_vars(ScanFindSupervisor(c))
        /\ WF_vars(PublicFindGuard(c))
        /\ WF_vars(PublicFindLocation(c))
        /\ WF_vars(PublicGeocode(c))
        /\ WF_vars(PublicInsertEvent(c))
        /\ WF_vars(PublicFindSupervisor(c))

SpecLive == Spec /\ Fairness

\* C9: the spreadsheet write does not block the caller: a scan that has persisted
\* its event returns its verdict, even when the spreadsheet write never completes.
C9_VerdictNotBlockedByMirror ==
    \A c \in Calls : (calls[c].insert = "accepted") ~> Finished(calls[c])

\* C10: under any interleaving of scan calls, the store holds one event per
\* accepted insert, each with its own id; a call that has inserted finds its
\* event in the store as it wrote it; a call that has returned the success
\* verdict owns exactly one event, the one its verdict names; and the number of
\* events is the number of successful calls plus the calls between their insert
\* and their verdict.
C10_ConcurrentScansKeepTheirEvents ==
    /\ Len(event_owner) = Len(scan_events)
    /\ \A i \in 1..Len(scan_events) : scan_events[i]._id = i
    /\ \A i, j \in 1..Len(event_owner) : event_owner[i] = event_owner[j] => i = j
    /\ \A c \in Calls :
          LET call == calls[c]
          IN  /\ (call.insert = "accepted" /\ call.frame # Nothing)
                 => /\ OwnEvents(call) = {call.frame.inserted_id}
                    /\ scan_events[call.frame.inserted_id] =
                           [call.frame.scan_event_doc EXCEPT !._id = call.frame.inserted_id]
              /\ (Finished(call) /\ call.status = 200 /\ call.op \in ScanOps)
                 => /\ OwnEvents(call) = {call.response.scanEventId}
                    /\ scan_events[call.response.scanEventId].scannedAt = call.response.scannedAt
                    /\ scan_events[call.response.scanEventId].coordinates = call.req.coordinates
                    /\ scan_events[call.response.scanEventId].qrId = call.req.qrId
    /\ Len(scan_events) =
          succeeded + Cardinality({c \in Calls : calls[c].insert = "accepted"
                                                 /\ ~Finished(calls[c])})

\* Two scans ran interleaved (the second was accepted before the first
\* inserted); both have returned the success verdict and the store holds both
\* events, the later request's first.
C10_Witness ==
    /\ \A c \in Calls : Finished(calls[c]) /\ calls[c].status = 200
    /\ succeeded = 2
    /\ Len(scan_events) = 2
    /\ event_owner = <<2, 1>>

\* C11: scans are not deduplicated: every accepted insert_one of a scan adds one
\* Scan Event with an identifier no stored event has, also when the store
\* already holds an event of the same guard, QR code and coordinates; n repeated
\* scans leave n events with n identifiers.
C11_RepeatedScansAddEvents ==
    [][\A c \in Calls :
          (calls[c].pc = "insert_event" /\ calls'[c].insert = "accepted")
          => /\ Len(scan_events') = Len(scan_events) + 1
             /\ scan_events'[Len(scan_events')]._id = calls'[c].frame.inserted_id
             /\ \A i \in 1..Len(scan_events) :
                   /\ scan_events'[i] = scan_events[i]
                   /\ scan_events[i]._id # calls'[c].frame.inserted_id]_vars

\* The same scan was made twice: the store holds two events of the same guard,
\* QR code and coordinates, with different identifiers.
C11_Witness ==
    \E i, j \in 1..Len(scan_events) :
        /\ i # j
        /\ scan_events[i].guardId = scan_events[j].guardId
        /\ scan_events[i].qrId = scan_events[j].qrId
        /\ scan_events[i].coordinates = scan_events[j].coordinates
        /\ scan_events[i]._id # scan_events[j]._id

\* C12: a scan whose latitude is outside [-90, 90] or whose longitude is outside
\* [-180, 180] is rejected as an invalid argument before any I/O: the call is
\* answered 422 at once, no QR location was looked up, neither the geocoding
\* provider nor insert_one nor the spreadsheet logger was called, and the store
\* holds no Scan Event of the call.
C12_InvalidCoordinatesRejected ==
    \A c \in Calls :
        LET call == calls[c]
        IN  ( /\ call.op \in ScanOps
              /\ HasRead(call.req, "degrees")
              /\ \/ call.req.degrees.latitude < -90 \/ call.req.degrees.latitude > 90
                 \/ call.req.degrees.longitude < -180 \/ call.req.degrees.longitude > 180 )
            => /\ Finished(call)
               /\ call.status = 422
               /\ call.response = Nothing
               /\ ~HasRead(call.req, "qrId")
               /\ call.geocode = "not_called"
               /\ call.insert = "not_called"
               /\ call.mirror = "not_called"
               /\ OwnEvents(call) = {}

\* A scan with a longitude out of range was rejected after a valid scan had put
\* its event in the store, which is as the valid scan left it.
C12_Witness ==
    /\ \E c \in Calls : /\ calls[c].op \in ScanOps /\ calls[c].status = 422
                        /\ calls[c].req.degrees.longitude = 181
    /\ Len(scan_events) = 1

\* C13: the verdict of a successful scan agrees with the Scan Event the scan
\* persisted: the returned identifier is that of the event the call inserted, and
\* the returned within_radius, rounded distance, address, scanned-at timestamp and
\* location name are the values stored in that event, the location name being
\* that of the QR Location the request's qr_id resolved to.
C13_VerdictAgreesWithEvent ==
    \A c \in Calls :
        LET call == calls[c]
        IN  (Finished(call) /\ call.status = 200 /\ call.op \in ScanOps)
            => LET r == call.response
                   e == scan_events[r.scanEventId]
                   location == FindOne(qr_locations, LAMBDA d : d._id = e.qrLocationId)
               IN  /\ r.scanEventId \in 1..Len(scan_events)
                   /\ e._id = r.scanEventId
                   /\ event_owner[r.scanEventId] = call.serial
                   /\ r.isWithinRadius = e.isWithinRadius
                   /\ r.distanceFromQR = e.distanceFromQR
                   /\ r.address = e.address
                   /\ r.scannedAt = e.scannedAt
                   /\ r.locationName = e.locationName
                   /\ r.qrId = e.qrId
                   /\ location # NoDoc
                   /\ location.qrId = call.req.qrId
                   /\ location.locationName = r.locationName

\* A scan just beyond the radius, given an address by the provider, has returned
\* its verdict naming the second event of the store.
C13_Witness ==
    \E c \in Calls :
        /\ Finished(calls[c]) /\ calls[c].status = 200 /\ calls[c].op \in ScanOps
        /\ calls[c].response.scanEventId = 2
        /\ ~calls[c].response.isWithinRadius
        /\ calls[c].response.distanceFromQR = WITHIN_RADIUS_METERS * 100
        /\ calls[c].response.address # ""

\* C14: the message of a verdict is the confirmation exactly when within_radius
\* is true, and the warning that embeds the distance rounded to one decimal
\* exactly when within_radius is false.
C14_MessageMatchesWithinRadius ==
    \A c \in Calls :
        LET call == calls[c]
        IN  (Finished(call) /\ call.status = 200 /\ call.op \in ScanOps)
            => LET r == call.response
                   e == scan_events[r.scanEventId]
                   location == FindOne(qr_locations, LAMBDA d : d._id = e.qrLocationId)
                   distance == Abs(call.req.coordinates.latitude
                                   - location.coordinates.latitude)
               IN  /\ r.isWithinRadius
                      <=> r.message = [text |-> "QR code scanned successfully", meters |-> 0]
                   /\ ~r.isWithinRadius
                      <=> r.message = [text |-> "Warning: You are {}m away from the QR location",
                                       meters |-> Round1(distance)]

\* A scan 50 m + 1/256 m away has been answered with the warning that embeds
\* 50.0 m, after a scan at exactly 50 m was answered with the confirmation.
C14_Witness ==
    /\ \E c \in Calls :
          /\ Finished(calls[c]) /\ calls[c].status = 200 /\ calls[c].op \in ScanOps
          /\ ~calls[c].response.isWithinRadius
          /\ calls[c].response.message.meters = WITHIN_RADIUS_METERS * 10
    /\ \E i \in 1..Len(scan_events) :
          /\ scan_events[i].isWithinRadius
          /\ scan_events[i].distanceFromQR = WITHIN_RADIUS_METERS * 100

\* C15: a scan call, successful or failed, only adds to the Event Store: none of
\* its steps changes a QR Location or a user, guard or supervisor record, and
\* none removes or changes a stored Scan Event.
C15_ScanOnlyAddsEvents ==
    [][\A c \in Calls :
          (calls'[c] # calls[c] /\ calls'[c].op \in ScanOps)
          => /\ qr_locations' = qr_locations
             /\ users' = users
             /\ guards' = guards
             /\ supervisors' = supervisors
             /\ Len(scan_events') \in {Len(scan_events), Len(scan_events) + 1}
             /\ \A i \in 1..Len(scan_events) : scan_events'[i] = scan_events[i]]_vars

\* A scan has put its event in the store and another scan has failed with 404;
\* the other collections are as they were before the two calls.
C15_Witness ==
    /\ \E c \in Calls : calls[c].op \in ScanOps /\ calls[c].status = 404
    /\ Len(scan_events) = 1
    /\ qr_locations = InitQrLocations
    /\ users = InitUsers
    /\ guards = InitGuards
    /\ supervisors = InitSupervisors

\* C16: a scan reported at exactly the registered coordinates of the resolved
\* location has distance 0.00, within_radius true and the confirmation message,
\* in the verdict and in the stored event; the comparison accepts distance zero
\* for every non-negative radius threshold.
C16_ScanAtLocationIsWithinRadius ==
    /\ \A radius \in RadiusThresholds, p \in Coordinates :
          WithinThreshold(geodesic(p, p), radius)
    /\ \A c \in Calls :
          LET call == calls[c]
          IN  (Finished(call) /\ call.status = 200 /\ call.op \in ScanOps)
              => LET r == call.response
                     e == scan_events[r.scanEventId]
                     location == FindOne(qr_locations, LAMBDA d : d._id = e.qrLocationId)
                 IN  call.req.coordinates = location.coordinates
                     => /\ r.distanceFromQR = 0
                        /\ r.isWithinRadius
                        /\ r.message = [text |-> "QR code scanned successfully", meters |-> 0]
                        /\ e.distanceFromQR = 0
                        /\ e.isWithinRadius

\* A scan at the registered coordinates of its location has been answered.
C16_Witness ==
    \E c \in Calls :
        /\ Finished(calls[c]) /\ calls[c].status = 200 /\ calls[c].op \in ScanOps
        /\ \E i \in 1..Len(qr_locations) :
              /\ qr_locations[i]._id
                    = scan_events[calls[c].response.scanEventId].qrLocationId
              /\ qr_locations[i].coordinates = calls[c].req.coordinates
        /\ calls[c].response.distanceFromQR = 0
        /\ calls[c].response.isWithinRadius

\* C17: every stored Scan Event carries the supervisorId of the group that owns
\* both its guard and its QR Location, and its QR Location is active (no
\* operation of the model changes a QR Location, so it was active when the scan
\* looked it up).
C17_EventGroupMatchesGuardAndLocation ==
    \A i \in 1..Len(scan_events) :
        LET e == scan_events[i]
            guard == FindOne(guards, LAMBDA g : g._id = e.guardId)
            location == FindOne(qr_locations, LAMBDA d : d._id = e.qrLocationId)
        IN  /\ guard # NoDoc
            /\ location # NoDoc
            /\ e.supervisorId = guard.supervisorId
            /\ e.supervisorId = location.supervisorId
            /\ location.isActive
            /\ location.qrId = e.qrId

\* A guard created under supervisor 2, beside the guard of supervisor 1, has
\* scanned the location of group 2 and the event is stored.
C17_Witness ==
    /\ \E g \in 1..Len(guards) : guards[g].supervisorId = 1
    /\ \E i \in 1..Len(scan_events), g \in 1..Len(guards) :
          /\ guards[g]._id = scan_events[i].guardId
          /\ guards[g].supervisorId = 2
          /\ scan_events[i].supervisorId = 2
          /\ scan_events[i].qrId = "QR-OTHER"

\* C18: a scan call that ended in an error (404, 503 or 500, and likewise the
\* rejection of invalid coordinates) has added no Scan Event to the Event Store.
C18_FailedScanStoresNothing ==
    \A c \in Calls :
        LET call == calls[c]
        IN  (Finished(call) /\ call.op \in ScanOps /\ call.status # 200)
            => /\ call.status \in {404, 503, 500, 422}
               /\ OwnEvents(call) = {}

\* A scan has failed with 500 at the insert, after an earlier scan stored its
\* event; the Event Store still holds that one event only.
C18_Witness ==
    /\ \E c \in Calls :
          /\ Finished(calls[c]) /\ calls[c].op \in ScanOps
          /\ calls[c].status = 500 /\ calls[c].insert = "rejected"
          /\ calls[c].serial = MaxCalls
    /\ Len(scan_events) = MaxCalls - 1

\* C19: a public scan is recorded only for an active guard: a call whose email
\* matches no active user with role GUARD, or whose user has no guard profile,
\* has failed with 404 and has no event; and a call that started after
\* disable_user completed for a guard's user with that email has been rejected
\* with 404 and has no event.  The user's updatedAt is the time at which the
\* disabling call built its update, the call's serial the time of its arrival;
\* disable_user and the public scans are served one after the other, so that a
\* disabling stamped before the call's arrival has completed before it.
C19_PublicScanOnlyForActiveGuard ==
    \A c \in Calls :
        LET call == calls[c]
            Disabled(u) == /\ u.email = call.req.guardEmail
                           /\ u.role = "GUARD"
                           /\ ~u.isActive
                           /\ u.updatedAt < call.serial
            Usable(u) == /\ u.email = call.req.guardEmail
                         /\ u.role = "GUARD"
                         /\ u.isActive \/ u.updatedAt >= call.serial
                         /\ \E g \in 1..Len(guards) :
                               /\ guards[g].userId = u._id
                               /\ guards[g].createdAt < call.serial
        IN  (call.op = "public_scan_qr_code" /\ HasRead(call.req, "guardEmail"))
            => /\ (\A i \in 1..Len(users) : ~Usable(users[i]))
                  => /\ Finished(call) => call.status = 404
                     /\ OwnEvents(call) = {}
               /\ (\E i \in 1..Len(users) : Disabled(users[i]))
                  => /\ Finished(call) => call.status = 404
                     /\ OwnEvents(call) = {}

\* C20: after any create_supervisor and create_guard calls, concurrently
\* interleaved ones included, no two user records share an email.
C20_EmailsUnique ==
    \A i, j \in 1..Len(users) : users[i].email = users[j].email => i = j

\* C21: create_guard is all-or-nothing: a call that has returned an error has
\* left no user record of its own behind, and once no request is being served
\* every user with role GUARD has a guard record that refers to it.
C21_FailedCreateGuardLeavesNothing ==
    /\ \A c \in Calls :
          LET call == calls[c]
          IN  (Finished(call) /\ call.op = "create_guard" /\ call.status # 200
               /\ HasRead(call.req, "email"))
              => \A i \in 1..Len(users) :
                    ~(users[i].email = call.req.email /\ users[i].createdAt >= call.serial)
    /\ Quiet => \A i \in 1..Len(users) :
                    users[i].role = "GUARD"
                    => \E g \in 1..Len(guards) : guards[g].userId = users[i]._id

\* The number of times guard_id occurs in a list of assigned guards.
Occurrences(assignedGuards, guard_id) ==
    Cardinality({k \in 1..Len(assignedGuards) : assignedGuards[k] = guard_id})

\* C22: after a successful create_guard there is exactly one user with the
\* returned user id (role GUARD, active, the email of the request, the areaCity
\* of the named supervisor), exactly one guard record that refers to that user
\* (the returned one, under the named supervisor), and the guard's id occurs
\* once in the assignedGuards of that supervisor and in no other supervisor's.
C22_CreateGuardCreatesOneOfEach ==
    \A c \in Calls :
        LET call == calls[c]
            r == call.response
        IN  (Finished(call) /\ call.op = "create_guard" /\ call.status = 200)
            => /\ Cardinality({i \in 1..Len(users) : users[i]._id = r.userId}) = 1
               /\ \A i \in 1..Len(users) :
                     users[i]._id = r.userId
                     => /\ users[i].role = "GUARD"
                        /\ users[i].isActive
                        /\ users[i].email = call.req.email
                        /\ users[i].createdAt >= call.serial
                        /\ \E s \in 1..Len(supervisors) :
                              /\ supervisors[s]._id = call.req.supervisorId
                              /\ supervisors[s].areaCity = users[i].areaCity
               /\ Cardinality({g \in 1..Len(guards) : guards[g].userId = r.userId}) = 1
               /\ \A g \in 1..Len(guards) :
                     guards[g].userId = r.userId
                     => /\ guards[g]._id = r.id
                        /\ guards[g].supervisorId = call.req.supervisorId
               /\ \A s \in 1..Len(supervisors) :
                     Occurrences(supervisors[s].assignedGuards, r.id)
                       = IF supervisors[s]._id = call.req.supervisorId THEN 1 ELSE 0

\* Two create_guard calls, one under each supervisor, have succeeded.
C22_Witness ==
    /\ \A c \in Calls :
          Finished(calls[c]) /\ calls[c].op = "create_guard" /\ calls[c].status = 200
    /\ \E c \in Calls : calls[c].req.supervisorId = 1
    /\ \E c \in Calls : calls[c].req.supervisorId = 2
    /\ Len(guards) = 3

\* C23: no step of a disable_user call changes the record of an administrator
\* other than the caller; a call whose target is another administrator ends
\* with 403, and a call whose target is the caller or a non-administrator is
\* not refused: it ends with 200 and the target disabled, or with 500 when the
\* update fails.
C23_OtherAdminsNeverDisabled ==
    [][\A c \in Calls :
          LET call == calls'[c]
          IN  (calls'[c] # calls[c] /\ call.op = "disable_user"
               /\ HasRead(call.req, "user_id"))
              => LET target == FindOne(users, LAMBDA u : u._id = call.req.user_id)
                     after == FindOne(users', LAMBDA u : u._id = call.req.user_id)
                     other_admin == /\ target # NoDoc
                                    /\ target.role = "ADMIN"
                                    /\ target._id # call.req.admin_id
                 IN  /\ \A i \in 1..Len(users) :
                           (users[i].role = "ADMIN" /\ users[i]._id # call.req.admin_id)
                           => users'[i] = users[i]
                     /\ other_admin => Finished(call) /\ call.status = 403 /\ after = target
                     /\ (Finished(call) /\ target # NoDoc /\ ~other_admin)
                        => /\ call.status \in {200, 500}
                           /\ call.status = 200 => ~after.isActive]_vars

\* One administrator's attempt to disable the other has been answered 403 and
\* the other's record is as it was at the start.
C23_Witness ==
    \E c \in Calls :
        /\ Finished(calls[c]) /\ calls[c].op = "disable_user"
        /\ calls[c].status = 403
        /\ calls[c].req.user_id = 1 /\ calls[c].req.admin_id = 2
        /\ users[1] = InitUsers[1]

\* C24: no step of any endpoint removes a user record or turns a user's
\* isActive from false to true; a step of a disable_user call changes at most
\* the isActive (to false) and the updatedAt of its target, and no guard,
\* supervisor, QR Location or Scan Event.
C24_DisableIsSoftDelete ==
    [][/\ Len(users') >= Len(users)
       /\ \A i \in 1..Len(users) :
             /\ users'[i]._id = users[i]._id
             /\ ~users[i].isActive => ~users'[i].isActive
       /\ \A c \in Calls :
             (calls'[c] # calls[c] /\ calls'[c].op = "disable_user")
             => /\ Len(users') = Len(users)
                /\ \A i \in 1..Len(users) :
                      \/ users'[i] = users[i]
                      \/ /\ users[i]._id = calls'[c].req.user_id
                         /\ users'[i] = [users[i] EXCEPT !.isActive = FALSE,
                                                         !.updatedAt = users'[i].updatedAt]
                /\ guards' = guards
                /\ supervisors' = supervisors
                /\ qr_locations' = qr_locations
                /\ scan_events' = scan_events]_vars

\* The guard's user has been disabled by a second disable_user call: the
\* record is still there, inactive, stamped with the time of that call, and
\* the other records are as they were.
C24_Witness ==
    /\ \E c \in Calls :
          /\ Finished(calls[c]) /\ calls[c].op = "disable_user"
          /\ calls[c].status = 200 /\ calls[c].req.user_id = 5
          /\ calls[c].serial = 2
    /\ Len(users) = 5
    /\ ~users[5].isActive /\ users[5].updatedAt = 2
    /\ \A i \in 1..4 : users[i] = InitUsers[i]
    /\ guards = InitGuards

\* The createdAt values of a sequence of documents or responses, in its order.
CreatedAts(docs) == [i \in 1..Len(docs) |-> docs[i].createdAt]

\* The records that match the filters of a list request.
Matching(call) ==
    IF call.op = "list_supervisors"
    THEN SupervisorsMatching(call.req.area_city, call.req.active)
    ELSE GuardsMatching(call.req.supervisor_id, call.req.area_city, call.req.active)

\* C25: list_supervisors and list_guards return the records at positions
\* skip..skip+limit-1 of the matching records ordered by createdAt descending
\* (compared here by the createdAt values, which do not depend on how equal
\* times are ordered).
C25_PageOfNewestFirst ==
    \A c \in Calls :
        LET call == calls[c]
        IN  (Finished(call) /\ call.status = 200
             /\ call.op \in {"list_supervisors", "list_guards"})
            => CreatedAts(call.response)
                 = CreatedAts(LimitStage(SkipStage(SortStage(Matching(call)),
                                                   call.req.skip),
                                         call.req.limit))

\* C26: the within_radius_percentage of an answered guard dashboard is between
\* 0 and 100 (0 to 1000 tenths of a percent), and 0 when the guard has no
\* scans, also when scans are inserted while the dashboard is being computed.
C26_DashboardPercentageInRange ==
    \A c \in Calls :
        LET call == calls[c]
        IN  (Finished(call) /\ call.op = "get_guard_dashboard" /\ call.status = 200)
            => /\ call.response.within_radius_percentage >= 0
               /\ call.response.within_radius_percentage <= 1000
               /\ call.response.total_scans = 0
                  => call.response.within_radius_percentage = 0

\* C27: the coverage_percentage of an answered patrol summary is between 0
\* and 100 (0 to 1000 tenths of a percent), and 0 when the guard's group has
\* no active location, also after a location scanned that day was deactivated.
C27_CoveragePercentageInRange ==
    \A c \in Calls :
        LET call == calls[c]
        IN  (Finished(call) /\ call.op = "get_patrol_summary" /\ call.status = 200)
            => /\ call.response.coverage_percentage >= 0
               /\ call.response.coverage_percentage <= 1000
               /\ call.response.total_available_locations = 0
                  => call.response.coverage_percentage = 0


\* C28: a request that found a collection it needs unavailable (it read
\* nothing of its body: req is Nothing) is answered with 503 "Database not
\* available", whichever endpoint it went to: the scan endpoints, the admin
\* endpoints, the guard endpoints and validate_qr_code.
C28_UnavailableGives503 ==
    \A c \in Calls :
        LET call == calls[c]
        IN  (/\ Finished(call)
             /\ call.req = Nothing
             /\ call.op \in {"scan_qr_code", "public_scan_qr_code", "disable_user",
                              "create_supervisor", "create_guard",
                              "list_supervisors", "list_guards",
                              "get_guard_dashboard", "get_patrol_summary",
                              "validate_qr_code"})
            => /\ call.status = 503
               /\ call.detail = "Database not available"
               /\ call.response = Nothing

\* C29: the radius threshold is one global value that no endpoint changes:
\* the settings stay as they were built, update_system_config answers with
\* success, and every stored Scan Event, of whichever Location and group and
\* whether stored before or after update_system_config requests, has
\* within_radius true exactly when its distance is at most that threshold.
C29_RadiusThresholdIsFixed ==
    /\ settings = InitSettings
    /\ \A c \in Calls :
          (Finished(calls[c]) /\ calls[c].op = "update_system_config")
          => calls[c].status = 200
    /\ \A i \in 1..Len(scan_events) :
          LET e == scan_events[i]
              location == FindOne(qr_locations, LAMBDA d : d._id = e.qrLocationId)
              distance == Abs(e.coordinates.latitude - location.coordinates.latitude)
          IN  e.isWithinRadius <=> WithinThreshold(distance, InitSettings.WITHIN_RADIUS_METERS)

\* An update_system_config request was answered first, and the scan that came
\* after it, exactly at the threshold, was stored as within radius.
C29_Witness ==
    /\ config_requests = 1
    /\ started = 2
    /\ \E i \in 1..Len(scan_events) :
          LET e == scan_events[i]
              location == FindOne(qr_locations, LAMBDA d : d._id = e.qrLocationId)
          IN  /\ event_owner[i] = 2
              /\ Abs(e.coordinates.latitude - location.coordinates.latitude)
                     = WITHIN_RADIUS_METERS * UnitsPerMeter
              /\ e.isWithinRadius

\* The device metadata a stored Scan Event carries ("" when it carries none).
DeviceInfoOf(event) == IF HasRead(event, "deviceInfo") THEN event.deviceInfo ELSE ""

\* Two scan requests with the same guard, qr_id, coordinates, note and device
\* metadata, met by the same provider and store outcomes.
SameScan(a, b) ==
    /\ HasRead(a.req, "qrId") /\ HasRead(b.req, "qrId")
    /\ a.req.guardEmail = b.req.guardEmail
    /\ a.req.qrId = b.req.qrId
    /\ a.req.degrees = b.req.degrees
    /\ (HasRead(a.req, "coordinates") /\ HasRead(b.req, "coordinates"))
       => a.req.coordinates = b.req.coordinates
    /\ (HasRead(a.req, "deviceInfo") /\ HasRead(b.req, "deviceInfo"))
       => /\ a.req.deviceInfo = b.req.deviceInfo
          /\ a.req.notes = b.req.notes
    /\ a.geocode = b.geocode
    /\ a.insert = b.insert

\* What the claim compares of two stored Scan Events.
SameEvent(d, e) ==
    /\ d.guardId = e.guardId
    /\ d.supervisorId = e.supervisorId
    /\ d.qrLocationId = e.qrLocationId
    /\ d.coordinates = e.coordinates
    /\ d.address = e.address
    /\ d.distanceFromQR = e.distanceFromQR
    /\ d.isWithinRadius = e.isWithinRadius
    /\ DeviceInfoOf(d) = DeviceInfoOf(e)

\* C30: scan_qr_code and public_scan_qr_code, given the same guard, qr_id,
\* coordinates and provider outcomes over the same store, end with the same
\* status, and where they accept they have stored Scan Events with the same
\* guard, owning group, Location, coordinates, address, distance, within_radius
\* and device metadata.
C30_AuthenticatedAndPublicScanAgree ==
    \A a \in Calls, b \in Calls :
        LET scan == calls[a]
            public == calls[b]
        IN  ( /\ Finished(scan) /\ scan.op = "scan_qr_code"
              /\ Finished(public) /\ public.op = "public_scan_qr_code"
              /\ SameScan(scan, public) )
            => /\ scan.status = public.status
               /\ Cardinality(OwnEvents(scan)) = Cardinality(OwnEvents(public))
               /\ \A i \in OwnEvents(scan), j \in OwnEvents(public) :
                      SameEvent(scan_events[i], scan_events[j])
====
